---- MODULE Spec2Model ----
(***************************************************************************)
(* Verification model of the concurrent multi-namespace collection         *)
(* pipeline of k8sfs: the retry decorator (src/utils/retry.py), the TTL    *)
(* cache (src/utils/cache.py), the executor pool (src/core/               *)
(* executor_pool.py), the collector template (src/collectors/) and the     *)
(* orchestrator (src/core/filesystem_collector.py).                        *)
(*                                                                         *)
(* The module holds one set of variables and several specifications, one   *)
(* per component; a specification keeps the variables of the components    *)
(* it does not exercise at their idle values.                              *)
(*   SpecRetry   - one retry-wrapped operation, called repeatedly          *)
(*   SpecCache   - a SimpleCache under set/get/invalidate/clear and time   *)
(*   SpecPool    - an ExecutorPool run over abstract units of work         *)
(*   SpecCollect - collect_all_namespaces over a list of namespace specs   *)
(***************************************************************************)
EXTENDS Integers, Sequences, FiniteSets, TLC

VARIABLES
    \* ---- retry_with_backoff.wrapper (src/utils/retry.py) ----
    rcfg,            \* decorator arguments [max_retries, delay, backoff]
    rpc,             \* "idle" | "loop" | "returned" | "raised"
    attempt,         \* loop variable of `for attempt in range(max_retries + 1)`
    current_delay,   \* local current_delay
    last_exception,  \* local last_exception (None or the error caught last)
    calls,           \* ghost: outcome of every invocation of func in this call
    sleeps,          \* ghost: argument of every time.sleep in this call
    rresult,         \* what the wrapper returned or raised
    callNo,          \* ghost: number of wrapper calls started so far
    \* ---- SimpleCache (src/utils/cache.py) ----
    ttl,             \* SimpleCache.ttl
    now,             \* time.time()
    cache,           \* SimpleCache._cache: key -> [value, timestamp]
    cacheRet,        \* ghost: the last cache operation and what it returned
    lastSet,         \* ghost: per key, the last set not followed by invalidate/clear
    \* ---- ExecutorPool (src/core/executor_pool.py) and its caller ----
    max_workers,     \* ExecutorPool.max_workers
    items,           \* the items handed to execute_parallel
    executor,        \* ExecutorPool._executor: "none" | "open" | "shutdown"
    pcCaller,        \* position of the thread that runs the pool
    fut,             \* per item, its future: [state, result]
    pendingFs,       \* as_completed: futures not yet seen finished
    toYield,         \* as_completed: finished futures not yet yielded
    results,         \* execute_parallel's local `results`
    logged,          \* items whose error execute_parallel logged
    escaped,         \* the error leaving the `with` block, or None
    \* ---- FilesystemCollector and the collectors ----
    cluster,         \* behaviour of the cluster API during this cycle
    task,            \* per item, the locals of its collect_namespace call
    heap,            \* the PodStorage lists created so far, by identity
    errors,          \* MetricsCollector.collection_errors: (namespace, type) -> count
    result_dict,     \* what collect_all_namespaces returned, or None
    \* ---- collect_namespace called by one thread, call after call ----
    sink,            \* the MetricsCollector calls that raise
    ncfg,            \* the NamespaceConfig of the current call
    npc,             \* position inside collect_namespace
    nloc,            \* its locals [pod_storages, pvc_map, node_storages]
    nret,            \* what the call returned or raised, or None
    ncall,           \* number of calls started so far
    last,            \* ghost: the latest BaseCollector.collect call
    stored,          \* ghost: per cache key, the latest cache.set and its query
    \* ---- _process_data and _aggregate_by_node applied to one pod listing ----
    agg_namespace,   \* the namespace argument of _aggregate_by_node
    agg_raw,         \* the V1Pod list handed to _process_data
    agg_pods,        \* the PodStorage list it returned, or None
    agg_nodes,       \* the NodeStorage list _aggregate_by_node returned, or None
    \* ---- SQLiteManager (src/database/db_manager.py) and DatabaseExporter ----
    node_metrics,    \* the rows of table node_metrics
    node_seq,        \* its AUTOINCREMENT counter
    pod_metrics,     \* the rows of table pod_metrics
    pod_seq,         \* its AUTOINCREMENT counter
    db_last,         \* ghost: the latest call, its arguments and what it returned
    \* ---- _extract_pod_storage applied to one pod ----
    ext_pod,         \* the V1Pod handed to _extract_pod_storage
    ext_ret,         \* the PodStorage it returned, or None
    \* ---- retry_with_backoff.wrapper called from several threads ----
    fr_cfg,          \* decorator arguments [max_retries, delay, backoff]
    frame            \* per thread, the locals of its wrapper invocation

retryVars == <<rcfg, rpc, attempt, current_delay, last_exception, calls, sleeps,
               rresult, callNo>>
cacheVars == <<ttl, now, cache, cacheRet, lastSet>>
poolVars == <<max_workers, items, executor, pcCaller, fut, pendingFs, toYield,
              results, logged, escaped>>
collectVars == <<cluster, task, heap, errors, result_dict>>
nsVars == <<sink, ncfg, npc, nloc, nret, ncall, last, stored>>
aggVars == <<agg_namespace, agg_raw, agg_pods, agg_nodes>>
dbVars == <<node_metrics, node_seq, pod_metrics, pod_seq, db_last>>
extVars == <<ext_pod, ext_ret>>
frVars == <<fr_cfg, frame>>
vars == <<retryVars, cacheVars, poolVars, collectVars, nsVars, aggVars, dbVars, extVars, frVars>>

\* What each component leaves alone.
notRetry == <<cacheVars, poolVars, collectVars, nsVars, aggVars, dbVars, extVars, frVars>>
notCache == <<retryVars, poolVars, collectVars, nsVars, aggVars, dbVars, extVars, frVars>>
notPool == <<retryVars, cacheVars, collectVars, nsVars, aggVars, dbVars, extVars, frVars>>
notAgg == <<retryVars, cacheVars, poolVars, collectVars, nsVars, dbVars, extVars, frVars>>
notDb == <<retryVars, cacheVars, poolVars, collectVars, nsVars, aggVars, extVars, frVars>>
notExt == <<retryVars, cacheVars, poolVars, collectVars, nsVars, aggVars, dbVars, frVars>>
notFr == <<retryVars, cacheVars, poolVars, collectVars, nsVars, aggVars, dbVars, extVars>>

\* Python's None, as a cache value and as a wrapper-local.
None == [tag |-> "None"]

\* None where a string is expected (an unset Optional[str] field, SQL NULL,
\* JSON null).
Null == "null"

(***************************************************************************)
(* RetryPolicy: retry_with_backoff                                         *)
(***************************************************************************)
\* Bounds of the retry model.
MaxRetriesBound == 3
MaxDelay == 2
MaxBackoff == 2
MaxCalls == 2

\* Kinds of outcome of one invocation of the wrapped function.
\* "api" stands for an error in the decorator's `exceptions` tuple
\* (ApiException at every use in k8s_client.py), "other" for any other error.
Outcomes == {"ok", "api", "other"}

\* `except exceptions as e` catches only the selected kinds.
RetryableAll(kind) == kind # "ok"
Retryable(kind) == kind = "api"

\* `if attempt == max_retries` : the attempt that re-raises instead of sleeping.
LastAttemptEarly(a, n) == a + 1 >= n
LastAttempt(a, n) == a = n

\* `current_delay *= backoff`
NextDelaySum(d, b) == d + b
NextDelay(d, b) == d * b

\* The error raised by the i-th invocation, and the value returned by it.
ErrorOf(kind, i) == [tag |-> "error", kind |-> kind, at |-> i]
ValueOf(i) == [tag |-> "value", at |-> i]

RetryIdle ==
    /\ rcfg = [max_retries |-> 0, delay |-> 0, backoff |-> 0]
    /\ rpc = "idle"
    /\ attempt = 0
    /\ current_delay = 0
    /\ last_exception = None
    /\ calls = <<>>
    /\ sleeps = <<>>
    /\ rresult = None
    /\ callNo = 0

\* The decorator is applied once with fixed arguments; the wrapper is idle.
RetryInit ==
    /\ rcfg \in [max_retries : 0..MaxRetriesBound, delay : 1..MaxDelay,
                 backoff : 1..MaxBackoff]
    /\ rpc = "idle"
    /\ attempt = 0
    /\ current_delay = 0
    /\ last_exception = None
    /\ calls = <<>>
    /\ sleeps = <<>>
    /\ rresult = None
    /\ callNo = 0

\* wrapper entry: current_delay = delay; last_exception = None; the for loop
\* starts at attempt 0.
RetryEnter ==
    /\ UNCHANGED notRetry
    /\ rpc \in {"idle", "returned", "raised"}
    /\ callNo < MaxCalls
    /\ rpc' = "loop"
    /\ attempt' = 0
    /\ current_delay' = rcfg.delay
    /\ last_exception' = None
    /\ calls' = <<>>
    /\ sleeps' = <<>>
    /\ rresult' = None
    /\ callNo' = callNo + 1
    /\ UNCHANGED rcfg

\* `return func(*args, **kwargs)` with func returning.
RetryReturn ==
    /\ UNCHANGED notRetry
    /\ rpc = "loop"
    /\ calls' = Append(calls, "ok")
    /\ rresult' = ValueOf(Len(calls) + 1)
    /\ rpc' = "returned"
    /\ UNCHANGED <<rcfg, attempt, current_delay, last_exception, sleeps, callNo>>

\* func raises an error the except clause selects: either the last attempt
\* (log, bare `raise` of the error just caught) or log, sleep, multiply.
RetryCatch ==
    /\ UNCHANGED notRetry
    /\ rpc = "loop"
    /\ \E kind \in Outcomes \ {"ok"} :
        /\ Retryable(kind)
        /\ calls' = Append(calls, kind)
        /\ last_exception' = ErrorOf(kind, Len(calls) + 1)
        /\ IF LastAttempt(attempt, rcfg.max_retries)
             THEN /\ rpc' = "raised"
                  /\ rresult' = ErrorOf(kind, Len(calls) + 1)
                  /\ UNCHANGED <<attempt, current_delay, sleeps>>
             ELSE /\ sleeps' = Append(sleeps, current_delay)
                  /\ current_delay' = NextDelay(current_delay, rcfg.backoff)
                  /\ attempt' = attempt + 1
                  /\ UNCHANGED <<rpc, rresult>>
    /\ UNCHANGED <<rcfg, callNo>>

\* func raises an error the except clause does not select: it leaves the
\* wrapper at once, the locals untouched.
RetryPropagate ==
    /\ UNCHANGED notRetry
    /\ rpc = "loop"
    /\ \E kind \in Outcomes \ {"ok"} :
        /\ ~Retryable(kind)
        /\ calls' = Append(calls, kind)
        /\ rresult' = ErrorOf(kind, Len(calls) + 1)
        /\ rpc' = "raised"
    /\ UNCHANGED <<rcfg, attempt, current_delay, last_exception, sleeps, callNo>>

RetryNext ==
    \/ RetryEnter
    \/ RetryReturn
    \/ RetryCatch
    \/ RetryPropagate

(***************************************************************************)
(* CacheStore: SimpleCache                                                 *)
(***************************************************************************)
\* Bounds of the cache model.
MaxTTL == 2
MaxTime == 3
NumKeys == 2
NumValues == 2

CacheKeys == {"k" \o ToString(i) : i \in 1..NumKeys}
CacheValues == {[tag |-> "v", v |-> i] : i \in 1..NumValues}

\* `time.time() - timestamp > self.ttl`
ExpiredAtBoundary(t, timestamp, T) == t - timestamp >= T
Expired(t, timestamp, T) == t - timestamp > T

\* The store without key k (`del self._cache[key]`).
Without(c, k) == [x \in DOMAIN c \ {k} |-> c[x]]
\* The store with key k bound to (value, time.time()).
With(c, k, v, t) ==
    [x \in DOMAIN c \cup {k} |-> IF x = k THEN [value |-> v, timestamp |-> t] ELSE c[x]]

\* SimpleCache.get: the returned value and the store it leaves.
CacheGet(c, k, t, T) ==
    IF k \notin DOMAIN c THEN [ret |-> None, store |-> c]
    ELSE IF Expired(t, c[k].timestamp, T) THEN [ret |-> None, store |-> Without(c, k)]
    ELSE [ret |-> c[k].value, store |-> c]

\* SimpleCache.set
CacheSetDropped(c, k, v, t) == c
CacheSet(c, k, v, t) == With(c, k, v, t)

\* SimpleCache.invalidate
CacheInvalidate(c, k) == IF k \in DOMAIN c THEN Without(c, k) ELSE c

NoOp == [op |-> "none", key |-> "", at |-> 0, ret |-> None]
NoStore == <<>>

CacheIdle ==
    /\ ttl = 0
    /\ now = 0
    /\ cache = NoStore
    /\ cacheRet = NoOp
    /\ lastSet = NoStore

\* SimpleCache.__init__: an empty store with a fixed ttl.
CacheInit ==
    /\ ttl \in 0..MaxTTL
    /\ now = 0
    /\ cache = NoStore
    /\ cacheRet = NoOp
    /\ lastSet = NoStore

\* Time passes; nothing in the cache runs on its own.
Tick ==
    /\ UNCHANGED notCache
    /\ now < MaxTime
    /\ now' = now + 1
    /\ UNCHANGED <<ttl, cache, cacheRet, lastSet>>

Get ==
    /\ UNCHANGED notCache
    /\ \E k \in CacheKeys :
        /\ cache' = CacheGet(cache, k, now, ttl).store
        /\ cacheRet' = [op |-> "get", key |-> k, at |-> now,
                        ret |-> CacheGet(cache, k, now, ttl).ret]
        /\ UNCHANGED <<ttl, now, lastSet>>

Set ==
    /\ UNCHANGED notCache
    /\ \E k \in CacheKeys, v \in CacheValues :
        /\ cache' = CacheSet(cache, k, v, now)
        /\ cacheRet' = [op |-> "set", key |-> k, at |-> now, ret |-> None]
        /\ lastSet' = With(lastSet, k, v, now)
        /\ UNCHANGED <<ttl, now>>

Invalidate ==
    /\ UNCHANGED notCache
    /\ \E k \in CacheKeys :
        /\ cache' = CacheInvalidate(cache, k)
        /\ cacheRet' = [op |-> "invalidate", key |-> k, at |-> now, ret |-> None]
        /\ lastSet' = Without(lastSet, k)
        /\ UNCHANGED <<ttl, now>>

Clear ==
    /\ UNCHANGED notCache
    /\ cache' = NoStore
    /\ cacheRet' = [op |-> "clear", key |-> "", at |-> now, ret |-> None]
    /\ lastSet' = NoStore
    /\ UNCHANGED <<ttl, now>>

\* SimpleCache.size reads the store under the lock and changes nothing.
Size ==
    /\ UNCHANGED notCache
    /\ cacheRet' = [op |-> "size", key |-> "", at |-> now,
                    ret |-> [tag |-> "int", v |-> Cardinality(DOMAIN cache)]]
    /\ UNCHANGED <<ttl, now, cache, lastSet>>

CacheNext ==
    \/ Tick
    \/ Get
    \/ Set
    \/ Invalidate
    \/ Clear
    \/ Size

(***************************************************************************)
(* TaskPool: ExecutorPool, with the `with` block of its caller             *)
(***************************************************************************)
\* Bounds of the pool model: the longest item list.
MaxItems == 3

\* Worker counts tried (Settings.max_workers, at least 1 by Settings.validate).
WorkerCounts == {1, 2}

\* What an abstract unit of work does when a worker runs it: return a value,
\* return None, raise, or never finish.
UnitKinds == {"v1", "v2", "none", "raise", "hang"}
UnitValue(kind) == IF kind = "none" THEN None ELSE [tag |-> "v", v |-> kind]

Indices == 1..Len(items)
NoFuture == [state |-> "none", result |-> None]
Finished(i) == fut[i].state \in {"returned", "raised"}
Running == {i \in Indices : fut[i].state = "running"}
Queued == {i \in Indices : fut[i].state = "queued"}
Min(S) == CHOOSE x \in S : \A y \in S : x <= y

\* `if result is not None: results.append(result)`
KeepAll(r) == TRUE
Keep(r) == r # None

\* ThreadPoolExecutor.shutdown(wait=True) returns once no submitted unit is
\* queued or running.
ShutdownNoWait(f) == TRUE
ShutdownReturns(f) == \A i \in DOMAIN f : f[i].state \notin {"queued", "running"}

PoolIdle ==
    /\ max_workers = 0
    /\ items = <<>>
    /\ executor = "none"
    /\ pcCaller = "idle"
    /\ fut = <<>>
    /\ pendingFs = {}
    /\ toYield = {}
    /\ results = <<>>
    /\ logged = {}
    /\ escaped = None

\* ExecutorPool.__init__: nothing is running yet.
PoolStart ==
    /\ max_workers \in WorkerCounts
    /\ executor = "none"
    /\ pcCaller = "start"
    /\ fut = [i \in 1..Len(items) |-> NoFuture]
    /\ pendingFs = {}
    /\ toYield = {}
    /\ results = <<>>
    /\ logged = {}
    /\ escaped = None

PoolInit ==
    /\ items \in UNION {[1..n -> UnitKinds] : n \in 0..MaxItems}
    /\ PoolStart

\* ExecutorPool.__enter__
PoolEnter ==
    /\ UNCHANGED notPool
    /\ pcCaller = "start"
    /\ executor' = "open"
    /\ pcCaller' = "entered"
    /\ UNCHANGED <<max_workers, items, fut, pendingFs, toYield, results, logged, escaped>>

\* execute_parallel with no items: `return []`.
ExecuteEmpty ==
    /\ UNCHANGED notPool
    /\ pcCaller = "entered"
    /\ items = <<>>
    /\ results' = <<>>
    /\ pcCaller' = "exit_ok"
    /\ UNCHANGED <<max_workers, items, executor, fut, pendingFs, toYield, logged, escaped>>

\* execute_parallel: one future is submitted per item.
Submit ==
    /\ UNCHANGED notPool
    /\ pcCaller = "entered"
    /\ items # <<>>
    /\ fut' = [i \in Indices |-> [state |-> "queued", result |-> None]]
    /\ results' = <<>>
    /\ pcCaller' = "submitted"
    /\ UNCHANGED <<max_workers, items, executor, pendingFs, toYield, logged, escaped>>

\* A free worker takes the oldest queued unit.
WorkerStart ==
    /\ UNCHANGED notPool
    /\ Queued # {}
    /\ Cardinality(Running) < max_workers
    /\ fut' = [fut EXCEPT ![Min(Queued)].state = "running"]
    /\ UNCHANGED <<max_workers, items, executor, pcCaller, pendingFs, toYield, results,
                   logged, escaped>>

\* An abstract unit returns its value; a unit of kind "hang" never does.
UnitReturn ==
    /\ UNCHANGED notPool
    /\ \E i \in Running :
        /\ items[i] \in {"v1", "v2", "none"}
        /\ fut' = [fut EXCEPT ![i] = [state |-> "returned", result |-> UnitValue(items[i])]]
    /\ UNCHANGED <<max_workers, items, executor, pcCaller, pendingFs, toYield, results,
                   logged, escaped>>

\* An abstract unit raises.
UnitRaise ==
    /\ UNCHANGED notPool
    /\ \E i \in Running :
        /\ items[i] = "raise"
        /\ fut' = [fut EXCEPT ![i] = [state |-> "raised",
                                      result |-> [tag |-> "error", kind |-> "Exception", at |-> i]]]
    /\ UNCHANGED <<max_workers, items, executor, pcCaller, pendingFs, toYield, results,
                   logged, escaped>>

\* as_completed(futures, timeout): the futures already finished are yielded
\* first, the others are waited for.
AsCompletedStart ==
    /\ UNCHANGED notPool
    /\ pcCaller = "submitted"
    /\ toYield' = {i \in Indices : Finished(i)}
    /\ pendingFs' = {i \in Indices : ~Finished(i)}
    /\ pcCaller' = "iterating"
    /\ UNCHANGED <<max_workers, items, executor, fut, results, logged, escaped>>

\* The loop body for one yielded future: future.result() either gives the
\* result, kept unless it is None, or raises the unit's error, which is logged.
Yield ==
    /\ UNCHANGED notPool
    /\ pcCaller = "iterating"
    /\ \E i \in toYield :
        /\ toYield' = toYield \ {i}
        /\ IF fut[i].state = "returned"
             THEN /\ results' = IF Keep(fut[i].result)
                                  THEN Append(results, fut[i].result) ELSE results
                  /\ UNCHANGED logged
             ELSE /\ logged' = logged \cup {i}
                  /\ UNCHANGED results
    /\ UNCHANGED <<max_workers, items, executor, pcCaller, fut, pendingFs, escaped>>

\* as_completed's wait returns with the futures finished meanwhile.
AsCompletedWake ==
    /\ UNCHANGED notPool
    /\ pcCaller = "iterating"
    /\ toYield = {}
    /\ \E i \in pendingFs : Finished(i)
    /\ toYield' = {i \in pendingFs : Finished(i)}
    /\ pendingFs' = {i \in pendingFs : ~Finished(i)}
    /\ UNCHANGED <<max_workers, items, executor, pcCaller, fut, results, logged, escaped>>

\* as_completed finds the timeout elapsed while futures are pending: it raises
\* TimeoutError from the `for` statement, outside the loop body's try.
AsCompletedTimeout ==
    /\ UNCHANGED notPool
    /\ pcCaller = "iterating"
    /\ toYield = {}
    /\ pendingFs # {}
    /\ escaped' = [tag |-> "error", kind |-> "TimeoutError", at |-> 0]
    /\ pcCaller' = "exit_exc"
    /\ UNCHANGED <<max_workers, items, executor, fut, pendingFs, toYield, results, logged>>

\* as_completed is exhausted: `return results`.
ExecuteReturn ==
    /\ UNCHANGED notPool
    /\ pcCaller = "iterating"
    /\ toYield = {}
    /\ pendingFs = {}
    /\ pcCaller' = "exit_ok"
    /\ UNCHANGED <<max_workers, items, executor, fut, pendingFs, toYield, results, logged,
                   escaped>>

\* ExecutorPool.__exit__: shutdown(wait=True), then the `with` block is left,
\* normally or with the error that was propagating (__exit__ returns None).
PoolExit ==
    /\ UNCHANGED notPool
    /\ pcCaller \in {"exit_ok", "exit_exc"}
    /\ ShutdownReturns(fut)
    /\ executor' = "shutdown"
    /\ pcCaller' = IF pcCaller = "exit_ok" THEN "left" ELSE "raised"
    /\ UNCHANGED <<max_workers, items, fut, pendingFs, toYield, results, logged, escaped>>

PoolRun ==
    \/ PoolEnter
    \/ ExecuteEmpty
    \/ Submit
    \/ WorkerStart
    \/ AsCompletedStart
    \/ Yield
    \/ AsCompletedWake
    \/ AsCompletedTimeout
    \/ ExecuteReturn
    \/ PoolExit

PoolNext ==
    \/ PoolRun
    \/ UnitReturn
    \/ UnitRaise

CollectIdle ==
    /\ cluster = None
    /\ task = <<>>
    /\ heap = <<>>
    /\ errors = <<>>
    /\ result_dict = None


(***************************************************************************)
(* The cluster API as seen through K8sClient                               *)
(***************************************************************************)
\* Bound of the orchestrator model: the longest list of namespace specs.
MaxSpecs == 2

\* Bound of the cluster scenarios: how many things go wrong in one cycle.
MaxFaults == 1

\* Settings.cache_ttl (CACHE_TTL default).
DefaultCacheTTL == 300

Names == {"A", "B"}
NoSelector == "none"
Selectors == {NoSelector, "app=web"}

\* NamespaceConfig; include_pods is read nowhere in the collection path and
\* field_selector travels with label_selector, so one selector stands for both.
NamespaceConfigs == [name : Names, include_pvcs : BOOLEAN, label_selector : Selectors]

\* What the cluster answers during one cycle: the namespaces whose pod listing
\* and claim listing fail with ApiException on every attempt (so that the
\* retry wrapper raises after its last attempt), whether the node listing
\* does, whether pod a2 comes back without a spec, and whether claim pvc-1 of
\* namespace A comes back without a status.
FaultCount(c) ==
    Cardinality(c.podsFail) + Cardinality(c.pvcsFail)
        + (IF c.nodesFail THEN 1 ELSE 0) + (IF c.badPod THEN 1 ELSE 0)
        + (IF c.badClaim THEN 1 ELSE 0)
Clusters ==
    {c \in [podsFail : SUBSET Names, pvcsFail : SUBSET {"A"}, nodesFail : BOOLEAN,
            badPod : BOOLEAN, badClaim : BOOLEAN] : FaultCount(c) <= MaxFaults}

Vol(n, k, c) == [name |-> n, kind |-> k, claim_name |-> c]
Pod(n, ns, node, vols, lbl, ok) ==
    [name |-> n, namespace |-> ns, node_name |-> node, volumes |-> vols,
     labels |-> lbl, has_spec |-> ok, containers |-> <<>>]
WithContainers(p, cs) == [p EXCEPT !.containers = cs]

\* The pods of each namespace (node_name "" is an unbound pod).
AllPods(ns, cl) ==
    IF ns = "A"
      THEN << Pod("a1", "A", "n1", <<Vol("data", "persistent_volume_claim", "pvc-1")>>,
                  "app=web", TRUE),
              Pod("a2", "A", "n1", <<Vol("cfg", "config_map", "")>>, "app=db", ~cl.badPod),
              Pod("a3", "A", "", <<Vol("logs", "persistent_volume_claim", "pvc-9")>>,
                  "app=db", TRUE) >>
    ELSE IF ns = "B"
      THEN << Pod("b1", "B", "n2", <<Vol("data", "persistent_volume_claim", "pvc-1"),
                                     Vol("tmp", "empty_dir", "")>>, "app=db", TRUE) >>
    ELSE <<>>

\* The claims of each namespace: name -> capacity.
AllClaims(ns, cl) ==
    IF ns = "A" THEN [c \in {"pvc-1"} |-> [capacity |-> "10Gi", has_status |-> ~cl.badClaim]]
    ELSE IF ns = "B"
      THEN [c \in {"pvc-1", "pvc-2"} |-> [capacity |-> "5Gi", has_status |-> TRUE]]
    ELSE <<>>

\* The nodes: name -> ephemeral-storage capacity and allocatable.
AllNodes ==
    [n \in {"n1"} |-> [capacity |-> "100Gi", allocatable |-> "90Gi"]]

\* K8sClient.list_pods behind retry_with_backoff: the pods matching the
\* selector, or ApiException once the retries are used up.
ListPods(cl, ns, sel) ==
    IF ns \in cl.podsFail THEN [ok |-> FALSE, error |-> "ApiException"]
    ELSE [ok |-> TRUE,
          items |-> LET Match(p) == sel = NoSelector \/ p.labels = sel
                    IN  SelectSeq(AllPods(ns, cl), Match)]

\* K8sClient.list_persistent_volume_claims
ListClaims(cl, ns) ==
    IF ns \in cl.pvcsFail THEN [ok |-> FALSE, error |-> "ApiException"]
    ELSE [ok |-> TRUE, items |-> AllClaims(ns, cl)]

\* K8sClient.list_nodes
ListNodes(cl) ==
    IF cl.nodesFail THEN [ok |-> FALSE, error |-> "ApiException"]
    ELSE [ok |-> TRUE, items |-> AllNodes]

(***************************************************************************)
(* CollectorStage: BaseCollector.collect and the two collectors            *)
(***************************************************************************)
\* BaseCollector._get_cache_key: f"{self.__class__.__name__}:{namespace}"
CacheKeyNoNamespace(cls, ns) == cls
CacheKey(cls, ns) == cls \o ":" \o ns

\* BaseCollector._validate
Validate(ns) == ns # ""

\* PodStorageCollector._determine_volume_type
VolumeType(kind) ==
    CASE kind = "persistent_volume_claim" -> "pvc"
      [] kind = "config_map" -> "configmap"
      [] kind = "secret" -> "secret"
      [] kind = "empty_dir" -> "emptydir"
      [] kind = "host_path" -> "hostpath"
      [] OTHER -> "unknown"

\* PodStorageCollector._extract_volume_info
ExtractVolumeInfo(v) ==
    [name |-> v.name, type |-> VolumeType(v.kind), capacity |-> "",
     pvc_name |-> IF v.kind = "persistent_volume_claim" THEN v.claim_name ELSE ""]

\* `if ephemeral:` after `requests.get("ephemeral-storage")` under
\* `if container.resources.requests:` (and the same for limits): the
\* dictionary is there, has the key, and the value is not empty.
Declared(v) == v \notin {"no-dict", "no-key", ""}

RECURSIVE ScanContainersFirstWins(_, _)
ScanContainersFirstWins(containers, ephemeral_storage) ==
    IF containers = <<>> THEN ephemeral_storage
    ELSE LET container == Head(containers)
             after_requests ==
                 IF container.has_resources /\ Declared(container.requests)
                        /\ ephemeral_storage = Null
                   THEN container.requests ELSE ephemeral_storage
             after_limits ==
                 IF container.has_resources /\ Declared(container.limits)
                        /\ after_requests = Null
                   THEN container.limits ELSE after_requests
         IN  ScanContainersFirstWins(Tail(containers), after_limits)

\* The scan of pod.spec.containers in _extract_pod_storage: every declared
\* request, then every declared limit, overwrites ephemeral_storage.
RECURSIVE ScanContainers(_, _)
ScanContainers(containers, ephemeral_storage) ==
    IF containers = <<>> THEN ephemeral_storage
    ELSE LET container == Head(containers)
             after_requests ==
                 IF container.has_resources /\ Declared(container.requests)
                   THEN container.requests ELSE ephemeral_storage
             after_limits ==
                 IF container.has_resources /\ Declared(container.limits)
                   THEN container.limits ELSE after_requests
         IN  ScanContainers(Tail(containers), after_limits)

\* PodStorageCollector._extract_pod_storage (defined for a pod with a spec).
ExtractPodStorageNoSentinel(p) ==
    [name |-> p.name, namespace |-> p.namespace, node |-> p.node_name, volumes |-> <<>>,
     ephemeral_storage |-> Null]
ExtractPodStorage(p) ==
    [name |-> p.name, namespace |-> p.namespace,
     node |-> IF p.node_name = "" THEN "unscheduled" ELSE p.node_name,
     volumes |-> [j \in 1..Len(p.volumes) |-> ExtractVolumeInfo(p.volumes[j])],
     ephemeral_storage |-> ScanContainers(p.containers, Null)]

\* PodStorageCollector._process_data: a pod whose extraction raises (it has
\* no spec) is logged and left out; the others are kept, in order.
ProcessPods(raw) ==
    LET Good(p) == p.has_spec
        kept == SelectSeq(raw, Good)
    IN  [j \in 1..Len(kept) |-> ExtractPodStorage(kept[j])]

\* PVStorageCollector._process_data: claim name -> info.
\* A claim without status makes `pvc.status.phase` raise AttributeError, which
\* leaves _process_data.
ClaimsRaise(raw) == \E c \in DOMAIN raw : ~raw[c].has_status
ProcessClaims(raw) == [c \in DOMAIN raw |-> [name |-> c, capacity |-> raw[c].capacity]]

(***************************************************************************)
(* Orchestrator: FilesystemCollector                                       *)
(***************************************************************************)
\* FilesystemCollector._enrich_with_pvc_data: in place, on the given list.
EnrichWithPvcData(pods, pvc_map) ==
    [j \in 1..Len(pods) |->
        [pods[j] EXCEPT !.volumes =
            [k \in 1..Len(pods[j].volumes) |->
                LET v == pods[j].volumes[k] IN
                IF v.pvc_name # "" /\ v.pvc_name \in DOMAIN pvc_map
                  THEN [v EXCEPT !.capacity = pvc_map[v.pvc_name].capacity]
                  ELSE v]]]

RECURSIVE SeqOfSet(_)
SeqOfSet(S) == IF S = {} THEN <<>> ELSE <<Min(S)>> \o SeqOfSet(S \ {Min(S)})

\* FilesystemCollector._aggregate_by_node: one NodeStorage per node value, in
\* the order the nodes first occur, holding the PodStorage objects themselves
\* (here: their place in list `ref`).
AggregateByNode(ns, pods, ref) ==
    LET firsts == {j \in 1..Len(pods) : \A k \in 1..(j - 1) : pods[k].node # pods[j].node}
        order == SeqOfSet(firsts)
    IN  [g \in 1..Len(order) |->
            [node_name |-> pods[order[g]].node,
             namespace |-> ns,
             pods |-> LET same == SeqOfSet({j \in 1..Len(pods) :
                                              pods[j].node = pods[order[g]].node})
                      IN  [m \in 1..Len(same) |-> [ref |-> ref, idx |-> same[m]]],
             total_capacity |-> "",
             total_allocatable |-> ""]]

\* FilesystemCollector._enrich_with_node_data: a failed node listing is
\* logged and leaves the totals unset.
EnrichWithNodeDataFatal(node_storages, listing) ==
    IF ~listing.ok THEN <<>> ELSE node_storages
EnrichWithNodeData(node_storages, listing) ==
    IF ~listing.ok THEN node_storages
    ELSE [g \in 1..Len(node_storages) |->
            LET n == node_storages[g] IN
            IF n.node_name \in DOMAIN listing.items
              THEN [n EXCEPT !.total_capacity = listing.items[n.node_name].capacity,
                             !.total_allocatable = listing.items[n.node_name].allocatable]
              ELSE n]

\* MetricsCollector.record_error: the counter labelled (namespace, type).
RecordError(errs, ns, type) ==
    LET k == <<ns, type>> IN
    [x \in DOMAIN errs \cup {k} |->
        IF x = k THEN (IF k \in DOMAIN errs THEN errs[k] + 1 ELSE 1) ELSE errs[x]]

\* The locals of one collect_namespace call.
NewTask == [pc |-> "pods_get", pod_storages |-> 0, pvc_map |-> <<>>, node_storages |-> <<>>]

\* The tuple collect_namespace returns: (namespace_config, node_storages);
\* the config is named by its place in the item list.
Pair(i, node_storages) == [tag |-> "pair", cfg |-> i, nodes |-> node_storages]

\* A stage call that fails: BaseCollector.collect records the error and
\* re-raises; collect_namespace's handler records it again and returns
\* (namespace_config, []).
StageFails(w, t, i, ns, type) ==
    [w |-> [w EXCEPT !.errors = RecordError(RecordError(w.errors, ns, type), ns, type)],
     t |-> [t EXCEPT !.pc = "failed"],
     ret |-> Pair(i, <<>>)]

\* `if namespace_config.include_pvcs:` decides what follows pod collection.
AfterPodsAlways(cfg) == "pvc_get"
AfterPods(cfg) == IF cfg.include_pvcs THEN "pvc_get" ELSE "enrich"

\* pod_collector.collect, first half: the cache check.
StepPodsGet(w, t, cfg, i, cl) ==
    LET g == CacheGet(w.cache, CacheKey("PodStorageCollector", cfg.name), w.now, w.ttl) IN
    [w |-> [w EXCEPT !.cache = g.store],
     t |-> IF g.ret # None
             THEN [t EXCEPT !.pod_storages = g.ret.id, !.pc = AfterPods(cfg)]
             ELSE [t EXCEPT !.pc = "pods_fetch"],
     ret |-> None]

\* pod_collector.collect, second half: validate, list_pods, _process_data,
\* cache.set.
StepPodsFetch(w, t, cfg, i, cl) ==
    LET listing == ListPods(cl, cfg.name, cfg.label_selector) IN
    IF ~Validate(cfg.name) THEN StageFails(w, t, i, cfg.name, "ValueError")
    ELSE IF ~listing.ok THEN StageFails(w, t, i, cfg.name, listing.error)
    ELSE [w |-> [w EXCEPT !.heap = (i :> ProcessPods(listing.items)) @@ w.heap,
                          !.cache = CacheSet(w.cache,
                                             CacheKey("PodStorageCollector", cfg.name),
                                             [tag |-> "ref", id |-> i], w.now)],
          t |-> [t EXCEPT !.pod_storages = i, !.pc = AfterPods(cfg)],
          ret |-> None]

\* pv_collector.collect, first half: the cache check.
StepPvcGet(w, t, cfg, i, cl) ==
    LET g == CacheGet(w.cache, CacheKey("PVStorageCollector", cfg.name), w.now, w.ttl) IN
    [w |-> [w EXCEPT !.cache = g.store],
     t |-> IF g.ret # None
             THEN [t EXCEPT !.pvc_map = g.ret.map, !.pc = "enrich"]
             ELSE [t EXCEPT !.pc = "pvc_fetch"],
     ret |-> None]

\* pv_collector.collect, second half.
StepPvcFetch(w, t, cfg, i, cl) ==
    LET listing == ListClaims(cl, cfg.name) IN
    IF ~Validate(cfg.name) THEN StageFails(w, t, i, cfg.name, "ValueError")
    ELSE IF ~listing.ok THEN StageFails(w, t, i, cfg.name, listing.error)
    ELSE IF ClaimsRaise(listing.items)
      THEN StageFails(w, t, i, cfg.name, "AttributeError")
    ELSE [w |-> [w EXCEPT !.cache = CacheSet(w.cache,
                                             CacheKey("PVStorageCollector", cfg.name),
                                             [tag |-> "map", map |-> ProcessClaims(listing.items)],
                                             w.now)],
          t |-> [t EXCEPT !.pvc_map = ProcessClaims(listing.items), !.pc = "enrich"],
          ret |-> None]

\* _enrich_with_pvc_data working on a copy of the list.
StepEnrichOnCopy(w, t, cfg, i, cl) ==
    [w |-> w, t |-> [t EXCEPT !.pc = "aggregate"], ret |-> None]

\* self._enrich_with_pvc_data(pod_storages, pvc_map)
StepEnrich(w, t, cfg, i, cl) ==
    [w |-> [w EXCEPT !.heap[t.pod_storages] = EnrichWithPvcData(@, t.pvc_map)],
     t |-> [t EXCEPT !.pc = "aggregate"],
     ret |-> None]

\* node_storages = self._aggregate_by_node(namespace, pod_storages)
StepAggregate(w, t, cfg, i, cl) ==
    [w |-> w,
     t |-> [t EXCEPT !.node_storages =
                        AggregateByNode(cfg.name, w.heap[t.pod_storages], t.pod_storages),
                     !.pc = "nodes"],
     ret |-> None]

\* self._enrich_with_node_data(node_storages); set_nodes; return.
StepNodes(w, t, cfg, i, cl) ==
    LET enriched == EnrichWithNodeData(t.node_storages, ListNodes(cl)) IN
    [w |-> w,
     t |-> [t EXCEPT !.node_storages = enriched, !.pc = "done"],
     ret |-> Pair(i, enriched)]

\* One step of collect_namespace from position t.pc.
Step(w, t, cfg, i, cl) ==
    CASE t.pc = "pods_get" -> StepPodsGet(w, t, cfg, i, cl)
      [] t.pc = "pods_fetch" -> StepPodsFetch(w, t, cfg, i, cl)
      [] t.pc = "pvc_get" -> StepPvcGet(w, t, cfg, i, cl)
      [] t.pc = "pvc_fetch" -> StepPvcFetch(w, t, cfg, i, cl)
      [] t.pc = "enrich" -> StepEnrich(w, t, cfg, i, cl)
      [] t.pc = "aggregate" -> StepAggregate(w, t, cfg, i, cl)
      [] t.pc = "nodes" -> StepNodes(w, t, cfg, i, cl)

\* The state shared by the tasks: the cache, the PodStorage lists, the error
\* counters.
World == [cache |-> cache, heap |-> heap, errors |-> errors, now |-> now, ttl |-> ttl]

\* FilesystemCollector.__init__ and the call of collect_all_namespaces.
CollectInit ==
    /\ items \in UNION {[1..n -> NamespaceConfigs] : n \in 0..MaxSpecs}
    /\ cluster \in Clusters
    /\ task = [i \in 1..Len(items) |-> NewTask]
    /\ heap = <<>>
    /\ errors = <<>>
    /\ result_dict = None
    /\ ttl = DefaultCacheTTL
    /\ now = 0
    /\ cache = NoStore
    /\ cacheRet = NoOp
    /\ lastSet = NoStore
    /\ PoolStart

\* Worker i runs one step of collect_namespace(items[i]); a step that
\* returns completes the future.
TaskStep(i, pc) ==
    /\ i \in Running
    /\ task[i].pc = pc
    /\ LET r == Step(World, task[i], items[i], i, cluster) IN
        /\ cache' = r.w.cache
        /\ heap' = r.w.heap
        /\ errors' = r.w.errors
        /\ task' = [task EXCEPT ![i] = r.t]
        /\ fut' = IF r.ret = None THEN fut
                  ELSE [fut EXCEPT ![i] = [state |-> "returned", result |-> r.ret]]
    /\ UNCHANGED <<retryVars, aggVars, frVars, extVars, dbVars, nsVars, ttl, now, cacheRet, lastSet, cluster, result_dict>>
    /\ UNCHANGED <<max_workers, items, executor, pcCaller, pendingFs, toYield, results,
                   logged, escaped>>

CollectPodsGet == \E i \in Indices : TaskStep(i, "pods_get")
CollectPodsFetch == \E i \in Indices : TaskStep(i, "pods_fetch")
CollectPvcGet == \E i \in Indices : TaskStep(i, "pvc_get")
CollectPvcFetch == \E i \in Indices : TaskStep(i, "pvc_fetch")
CollectEnrich == \E i \in Indices : TaskStep(i, "enrich")
CollectAggregate == \E i \in Indices : TaskStep(i, "aggregate")
CollectNodes == \E i \in Indices : TaskStep(i, "nodes")

\* `for namespace_config, node_storages in results:
\*      result_dict[namespace_config.name] = node_storages`
RECURSIVE BuildDictSkipEmpty(_, _, _)
BuildDictSkipEmpty(rs, its, acc) ==
    IF rs = <<>> THEN acc
    ELSE IF Head(rs).nodes = <<>> THEN BuildDictSkipEmpty(Tail(rs), its, acc)
    ELSE BuildDictSkipEmpty(Tail(rs), its, (its[Head(rs).cfg].name :> Head(rs).nodes) @@ acc)
RECURSIVE BuildDict(_, _, _)
BuildDict(rs, its, acc) ==
    IF rs = <<>> THEN acc
    ELSE BuildDict(Tail(rs), its, (its[Head(rs).cfg].name :> Head(rs).nodes) @@ acc)

\* collect_all_namespaces after the `with` block: build the dictionary, return.
BuildResult ==
    /\ pcCaller = "left"
    /\ result_dict' = [tag |-> "dict", map |-> BuildDict(results, items, <<>>)]
    /\ pcCaller' = "done"
    /\ UNCHANGED <<retryVars, aggVars, frVars, extVars, dbVars, nsVars, cacheVars, cluster, task, heap, errors>>
    /\ UNCHANGED <<max_workers, items, executor, fut, pendingFs, toYield, results, logged,
                   escaped>>

CollectNext ==
    \/ PoolRun
    \/ CollectPodsGet
    \/ CollectPodsFetch
    \/ CollectPvcGet
    \/ CollectPvcFetch
    \/ CollectEnrich
    \/ CollectAggregate
    \/ CollectNodes
    \/ BuildResult

(***************************************************************************)
(* collect_namespace called by one thread, call after call, with the       *)
(* metrics sink and the steps of BaseCollector.collect spelled out.        *)
(***************************************************************************)
\* Bound of this model: how many collect_namespace calls are made.
MaxNsCalls == 2

\* The MetricsCollector methods the collection path calls.
SinkCalls ==
    {"start_timer", "stop_timer", "record_collection", "record_error", "record_pods",
     "set_nodes"}
\* Which of them raise: none, one of them, or all of them.
SinkModes == {{}} \cup {{c} : c \in SinkCalls} \cup {SinkCalls}

\* The configurations handed to collect_namespace: the empty name, namespace
\* A with and without claims and selector, namespace B.
NsConfigs ==
    {c \in [name : {""} \cup Names, include_pvcs : BOOLEAN, label_selector : Selectors] :
        c.name # "A" => (c.include_pvcs /\ c.label_selector = NoSelector)}

PodStage == "PodStorageCollector"
PvStage == "PVStorageCollector"

\* What one query of a stage asks for: pod_collector.collect passes the
\* selectors, pv_collector.collect only the namespace.
Query(cls, ns, sel) ==
    [stage |-> cls, namespace |-> ns, selector |-> IF cls = PodStage THEN sel ELSE NoSelector]

\* _collect_data: the listing behind the retry wrapper; the pod collector then
\* calls metrics.record_pods.
StageFetch(cls, ns, sel, cl, snk) ==
    IF cls = PodStage
      THEN LET l == ListPods(cl, ns, sel) IN
           IF ~l.ok
             THEN [ok |-> FALSE, items |-> <<>>, error |-> l.error, ops |-> <<"fetch">>]
           ELSE IF "record_pods" \in snk
             THEN [ok |-> FALSE, items |-> <<>>, error |-> "SinkError",
                   ops |-> <<"fetch", "record_pods">>]
           ELSE [ok |-> TRUE, items |-> l.items, error |-> "",
                 ops |-> <<"fetch", "record_pods">>]
      ELSE LET l == ListClaims(cl, ns) IN
           IF ~l.ok
             THEN [ok |-> FALSE, items |-> <<>>, error |-> l.error, ops |-> <<"fetch">>]
           ELSE [ok |-> TRUE, items |-> l.items, error |-> "", ops |-> <<"fetch">>]

\* _process_data: the value handed to cache.set, the heap it leaves (a new
\* PodStorage list lives at `id`) and the number of raw records whose
\* conversion raised.
StageTransform(cls, raw, id, h) ==
    IF cls = PodStage
      THEN [value |-> [tag |-> "ref", id |-> id],
            heap |-> (id :> ProcessPods(raw)) @@ h,
            bad |-> Cardinality({j \in 1..Len(raw) : ~raw[j].has_spec})]
      ELSE [value |-> [tag |-> "map", map |-> ProcessClaims(raw)], heap |-> h,
            bad |-> Cardinality({c \in DOMAIN raw : ~raw[c].has_status})]

\* The outcome of one BaseCollector.collect call; `written` is the value it
\* handed to cache.set, if it did.
StageOut(w, ok, hit, value, error, o, bad, written) ==
    [w |-> w, ok |-> ok, hit |-> hit, value |-> value, error |-> error, ops |-> o,
     bad |-> bad, written |-> written]

\* `except Exception as e`: log, metrics.record_error, `raise`; when
\* record_error raises, its error leaves instead.
StageRaise(w, ns, error, snk, o, bad, written) ==
    IF "record_error" \in snk
      THEN StageOut(w, FALSE, FALSE, None, "SinkError", Append(o, "record_error"), bad, written)
      ELSE StageOut([w EXCEPT !.errors = RecordError(@, ns, error)], FALSE, FALSE, None,
                    error, Append(o, "record_error"), bad, written)

\* BaseCollector.collect with an empty result cached before the `try`.
StageCollectCachesFirst(w, cls, ns, sel, cl, snk, id) ==
    LET key == CacheKey(cls, ns)
        g == CacheGet(w.cache, key, w.now, w.ttl)
        w1 == [w EXCEPT !.cache = CacheSet(g.store, key, [tag |-> "map", map |-> <<>>],
                                           w.now)]
        f == StageFetch(cls, ns, sel, cl, snk)
        tr == StageTransform(cls, f.items, id, w1.heap)
        w2 == [w1 EXCEPT !.heap = tr.heap,
                         !.cache = CacheSet(w1.cache, key, tr.value, w.now)]
        o1 == <<"cache_get">>
        o2 == Append(o1, "start_timer")
        o3 == Append(o2, "validate")
        o4 == o3 \o f.ops
        o5 == o4 \o <<"transform", "cache_set">>
        o6 == Append(o5, "stop_timer")
        o7 == Append(o6, "record_collection")
    IN  IF g.ret # None THEN StageOut(w1, TRUE, TRUE, g.ret, "", o1, 0, None)
        ELSE IF "start_timer" \in snk
          THEN StageOut(w1, FALSE, FALSE, None, "SinkError", o2, 0, None)
        ELSE IF ~Validate(ns) THEN StageRaise(w1, ns, "ValueError", snk, o3, 0, None)
        ELSE IF ~f.ok THEN StageRaise(w1, ns, f.error, snk, o4, 0, None)
        ELSE IF cls = PvStage /\ ClaimsRaise(f.items)
          THEN StageRaise(w1, ns, "AttributeError", snk, Append(o4, "transform"), tr.bad, None)
        ELSE IF "stop_timer" \in snk
          THEN StageRaise(w2, ns, "SinkError", snk, o6, tr.bad, tr.value)
        ELSE IF "record_collection" \in snk
          THEN StageRaise(w2, ns, "SinkError", snk, o7, tr.bad, tr.value)
        ELSE StageOut(w2, TRUE, FALSE, tr.value, "", o7, tr.bad, tr.value)

\* BaseCollector.collect(namespace, ...), in the order of its statements.
StageCollect(w, cls, ns, sel, cl, snk, id) ==
    LET key == CacheKey(cls, ns)
        g == CacheGet(w.cache, key, w.now, w.ttl)
        w1 == [w EXCEPT !.cache = g.store]
        f == StageFetch(cls, ns, sel, cl, snk)
        tr == StageTransform(cls, f.items, id, w1.heap)
        w2 == [w1 EXCEPT !.heap = tr.heap,
                         !.cache = CacheSet(w1.cache, key, tr.value, w.now)]
        o1 == <<"cache_get">>
        o2 == Append(o1, "start_timer")
        o3 == Append(o2, "validate")
        o4 == o3 \o f.ops
        o5 == o4 \o <<"transform", "cache_set">>
        o6 == Append(o5, "stop_timer")
        o7 == Append(o6, "record_collection")
    IN  IF g.ret # None THEN StageOut(w1, TRUE, TRUE, g.ret, "", o1, 0, None)
        ELSE IF "start_timer" \in snk
          THEN StageOut(w1, FALSE, FALSE, None, "SinkError", o2, 0, None)
        ELSE IF ~Validate(ns) THEN StageRaise(w1, ns, "ValueError", snk, o3, 0, None)
        ELSE IF ~f.ok THEN StageRaise(w1, ns, f.error, snk, o4, 0, None)
        ELSE IF cls = PvStage /\ ClaimsRaise(f.items)
          THEN StageRaise(w1, ns, "AttributeError", snk, Append(o4, "transform"), tr.bad, None)
        ELSE IF "stop_timer" \in snk
          THEN StageRaise(w2, ns, "SinkError", snk, o6, tr.bad, tr.value)
        ELSE IF "record_collection" \in snk
          THEN StageRaise(w2, ns, "SinkError", snk, o7, tr.bad, tr.value)
        ELSE StageOut(w2, TRUE, FALSE, tr.value, "", o7, tr.bad, tr.value)

NoStage == [stage |-> "none"]
NoLocals == [pod_storages |-> 0, pvc_map |-> <<>>, node_storages |-> <<>>]
Raised(error) == [tag |-> "error", kind |-> error, at |-> 0]

NsIdle ==
    /\ sink = {}
    /\ ncfg = None
    /\ npc = "idle"
    /\ nloc = NoLocals
    /\ nret = None
    /\ ncall = 0
    /\ last = NoStage
    /\ stored = NoStore

\* FilesystemCollector.__init__ with some cache_ttl; the sink raises only in
\* runs where the cluster API is healthy.
NsInit ==
    /\ ttl \in 0..MaxTTL
    /\ now = 0
    /\ cache = NoStore
    /\ cacheRet = NoOp
    /\ lastSet = NoStore
    /\ cluster \in Clusters
    /\ sink \in SinkModes
    /\ (sink = {} \/ FaultCount(cluster) = 0)
    /\ task = <<>>
    /\ heap = <<>>
    /\ errors = <<>>
    /\ result_dict = None
    /\ ncfg = None
    /\ npc = "idle"
    /\ nloc = NoLocals
    /\ nret = None
    /\ ncall = 0
    /\ last = NoStage
    /\ stored = NoStore

NsEnded == npc \in {"returned", "raised"}

\* collect_namespace's handler without its metrics.record_error call.
NsExceptUncounted(errs, i, ns, error, snk) ==
    [errors |-> errs, ret |-> Pair(i, <<>>)]

\* collect_namespace's `except Exception as e`: log, metrics.record_error,
\* `return (namespace_config, [])`; when record_error raises, its error leaves
\* collect_namespace.
NsExcept(errs, i, ns, error, snk) ==
    IF "record_error" \in snk
      THEN [errors |-> errs, ret |-> Raised("SinkError")]
      ELSE [errors |-> RecordError(errs, ns, error), ret |-> Pair(i, <<>>)]

NsPcOf(ret) == IF ret.tag = "pair" THEN "returned" ELSE "raised"
NsAfterPods(cfg) == IF cfg.include_pvcs THEN "pvc" ELSE "enrich"

\* The main loop calls collect_namespace (through collect_all_namespaces)
\* again with some configuration.
NsCall ==
    /\ npc = "idle" \/ NsEnded
    /\ ncall < MaxNsCalls
    /\ \E cfg \in NsConfigs : ncfg' = cfg
    /\ npc' = "pods"
    /\ nloc' = NoLocals
    /\ nret' = None
    /\ ncall' = ncall + 1
    /\ last' = NoStage
    /\ UNCHANGED <<retryVars, aggVars, frVars, extVars, dbVars, cacheVars, poolVars, collectVars, sink, stored>>

\* Time passes between two calls.
NsTick ==
    /\ NsEnded
    /\ now < MaxTime
    /\ now' = now + 1
    /\ UNCHANGED <<retryVars, aggVars, frVars, extVars, dbVars, poolVars, collectVars, nsVars, ttl, cache, cacheRet, lastSet>>

\* What a stage call leaves behind, whatever its outcome.
NsStage(cls, r) ==
    LET key == CacheKey(cls, ncfg.name) IN
    /\ cache' = r.w.cache
    /\ heap' = r.w.heap
    /\ last' = [stage |-> cls, query |-> Query(cls, ncfg.name, ncfg.label_selector),
                key |-> key, at |-> now,
                before |-> IF key \in DOMAIN stored THEN stored[key] ELSE None,
                ok |-> r.ok, hit |-> r.hit, value |-> r.value, error |-> r.error,
                ops |-> r.ops, bad |-> r.bad, written |-> r.written]
    /\ stored' = IF r.written # None
                   THEN [x \in DOMAIN stored \cup {key} |->
                           IF x = key
                             THEN [tag |-> "set", value |-> r.written,
                                   timestamp |-> now, ok |-> r.ok,
                                   query |-> Query(cls, ncfg.name, ncfg.label_selector)]
                             ELSE stored[x]]
                   ELSE stored
    /\ errors' = IF r.ok THEN r.w.errors
                 ELSE NsExcept(r.w.errors, ncall, ncfg.name, r.error, sink).errors
    /\ nret' = IF r.ok THEN None
               ELSE NsExcept(r.w.errors, ncall, ncfg.name, r.error, sink).ret
    /\ UNCHANGED <<retryVars, aggVars, frVars, extVars, dbVars, poolVars, ttl, now, cacheRet, lastSet, cluster, task,
                   result_dict, sink, ncfg, ncall>>

\* pod_storages = self.pod_collector.collect(namespace, label_selector=...,
\* field_selector=...)
NsPods ==
    /\ npc = "pods"
    /\ LET r == StageCollect(World, PodStage, ncfg.name, ncfg.label_selector, cluster,
                             sink, ncall) IN
        /\ NsStage(PodStage, r)
        /\ nloc' = IF r.ok THEN [nloc EXCEPT !.pod_storages = r.value.id] ELSE nloc
        /\ npc' = IF r.ok THEN NsAfterPods(ncfg) ELSE NsPcOf(nret')

\* pvc_map = self.pv_collector.collect(namespace)
NsPvc ==
    /\ npc = "pvc"
    /\ LET r == StageCollect(World, PvStage, ncfg.name, ncfg.label_selector, cluster,
                             sink, ncall) IN
        /\ NsStage(PvStage, r)
        /\ nloc' = IF r.ok THEN [nloc EXCEPT !.pvc_map = r.value.map] ELSE nloc
        /\ npc' = IF r.ok THEN "enrich" ELSE NsPcOf(nret')

\* self._enrich_with_pvc_data(pod_storages, pvc_map)
NsEnrich ==
    /\ npc = "enrich"
    /\ heap' = [heap EXCEPT ![nloc.pod_storages] = EnrichWithPvcData(@, nloc.pvc_map)]
    /\ npc' = "aggregate"
    /\ UNCHANGED <<retryVars, aggVars, frVars, extVars, dbVars, cacheVars, poolVars, cluster, task, errors, result_dict>>
    /\ UNCHANGED <<sink, ncfg, nloc, nret, ncall, last, stored>>

\* node_storages = self._aggregate_by_node(namespace, pod_storages)
NsAggregate ==
    /\ npc = "aggregate"
    /\ nloc' = [nloc EXCEPT !.node_storages =
                   AggregateByNode(ncfg.name, heap[nloc.pod_storages], nloc.pod_storages)]
    /\ npc' = "nodes"
    /\ UNCHANGED <<retryVars, aggVars, frVars, extVars, dbVars, cacheVars, poolVars, collectVars>>
    /\ UNCHANGED <<sink, ncfg, nret, ncall, last, stored>>

\* self._enrich_with_node_data(node_storages); self.metrics.set_nodes(...);
\* `return (namespace_config, node_storages)`, or the handler when set_nodes
\* raises.
NsNodes ==
    /\ npc = "nodes"
    /\ LET enriched == EnrichWithNodeData(nloc.node_storages, ListNodes(cluster))
           e == NsExcept(errors, ncall, ncfg.name, "SinkError", sink)
       IN  /\ nloc' = [nloc EXCEPT !.node_storages = enriched]
           /\ IF "set_nodes" \in sink
                THEN /\ errors' = e.errors
                     /\ nret' = e.ret
                ELSE /\ errors' = errors
                     /\ nret' = Pair(ncall, enriched)
           /\ npc' = NsPcOf(nret')
    /\ UNCHANGED <<retryVars, aggVars, frVars, extVars, dbVars, cacheVars, poolVars, cluster, task, heap, result_dict>>
    /\ UNCHANGED <<sink, ncfg, ncall, last, stored>>

NsNext ==
    \/ NsCall
    \/ NsTick
    \/ NsPods
    \/ NsPvc
    \/ NsEnrich
    \/ NsAggregate
    \/ NsNodes

(***************************************************************************)
(* _process_data and _aggregate_by_node as functions of one pod listing    *)
(***************************************************************************)
\* Bound of this model: the longest pod listing.
MaxPods == 4

\* spec.node_name of a listed pod: unset, or one of two nodes.
RawNodes == {"", "A", "B"}

\* The listings of namespace ns with n pods p1..pn placed on the given nodes.
RawListings(ns) ==
    UNION {{[j \in 1..n |-> Pod("p" \o ToString(j), ns, where[j], <<>>, "", TRUE)] :
                where \in [1..n -> RawNodes]} : n \in 0..MaxPods}

ListOf(s) == [tag |-> "list", list |-> s]

AggIdle ==
    /\ agg_namespace = ""
    /\ agg_raw = <<>>
    /\ agg_pods = None
    /\ agg_nodes = None

AggInit ==
    /\ agg_namespace \in Names
    /\ agg_raw \in RawListings(agg_namespace)
    /\ agg_pods = None
    /\ agg_nodes = None

\* pod_storages = self._process_data(raw_data)
AggProcess ==
    /\ UNCHANGED notAgg
    /\ agg_pods = None
    /\ agg_pods' = ListOf(ProcessPods(agg_raw))
    /\ UNCHANGED <<agg_namespace, agg_raw, agg_nodes>>

\* node_storages = self._aggregate_by_node(namespace, pod_storages)
AggAggregate ==
    /\ UNCHANGED notAgg
    /\ agg_pods # None
    /\ agg_nodes = None
    /\ agg_nodes' = ListOf(AggregateByNode(agg_namespace, agg_pods.list, 1))
    /\ UNCHANGED <<agg_namespace, agg_raw, agg_pods>>

AggNext ==
    \/ AggProcess
    \/ AggAggregate

(***************************************************************************)
(* Persistence: SQLiteManager and DatabaseExporter                         *)
(***************************************************************************)
MaxInserts == 3
MaxSecond == 1

\* Optional[str] arguments: None, or a string (possibly empty).
NoneStr == [tag |-> "None"]
Str(s) == [tag |-> "str", value |-> s]
\* `if namespace:` - None and the empty string both count as no filter.
Truthy(x) == x.tag = "str" /\ x.value # ""
Filters == {NoneStr} \cup {Str(s) : s \in {""} \cup Names}

\* Naive datetime values: a second of the clock and a fraction of it (in
\* tenths; 0 is a whole second).
Datetimes == [second : 0..MaxSecond, fraction : {0, 5}]
NotAfter(a, b) ==
    a.second < b.second \/ (a.second = b.second /\ a.fraction <= b.fraction)

\* datetime.isoformat(): fixed-width fields, the fraction only when it is not
\* zero.  The text is the sequence of its character codes.
IsoFormat(t) ==
    <<48 + (t.second \div 10), 48 + (t.second % 10)>>
        \o (IF t.fraction = 0 THEN <<>> ELSE <<46, 48 + t.fraction>>)

\* SQLite's comparison of TEXT values: bytewise, a proper prefix first.
RECURSIVE TextLeq(_, _)
TextLeq(a, b) ==
    IF a = <<>> THEN TRUE
    ELSE IF b = <<>> THEN FALSE
    ELSE IF Head(a) # Head(b) THEN Head(a) < Head(b)
    ELSE TextLeq(Tail(a), Tail(b))

\* timestamp BETWEEN ? AND ?
BetweenOpen(x, lo, hi) == TextLeq(lo, x) /\ TextLeq(x, hi) /\ x # lo /\ x # hi
Between(x, lo, hi) == TextLeq(lo, x) /\ TextLeq(x, hi)

\* The metrics dictionaries handed to insert_metrics, and dict.get.
Metrics ==
    {[k \in {"total_capacity"} |-> "50Gi"],
     [k \in {"total_capacity", "total_allocatable"} |->
         IF k = "total_capacity" THEN "100Gi" ELSE "80Gi"]}
DictGet(m, k) == IF k \in DOMAIN m THEN m[k] ELSE Null

\* json.dumps and json.loads of such a dictionary: its members, written out
\* and read back.
JsonDumps(m) == {<<k, m[k]>> : k \in DOMAIN m}
JsonLoads(text) ==
    [k \in {p[1] : p \in text} |-> (CHOOSE p \in text : p[1] = k)[2]]

\* The nodes a namespace's pods run on.
DbNodes(ns) == IF ns = "A" THEN {"n1", "n2"} ELSE {"n1"}

\* UNIQUE(timestamp, namespace, node_name) and INSERT OR REPLACE INTO
\* node_metrics: the row in conflict is deleted, the new row gets the next
\* AUTOINCREMENT id.
NodeConflicts(table, ts, ns, node) ==
    {x \in table : x.timestamp = ts /\ x.namespace = ns /\ x.node_name = node}
NodeRow(id, ts, ns, node, metrics) ==
    [id |-> id, timestamp |-> ts, namespace |-> ns, node_name |-> node,
     total_capacity |-> DictGet(metrics, "total_capacity"),
     total_allocatable |-> DictGet(metrics, "total_allocatable"),
     metrics_json |-> JsonDumps(metrics)]
InsertMetricsPlain(table, seq, timestamp, ns, node, metrics) ==
    table \cup {NodeRow(seq + 1, IsoFormat(timestamp), ns, node, metrics)}
InsertMetrics(table, seq, timestamp, ns, node, metrics) ==
    (table \ NodeConflicts(table, IsoFormat(timestamp), ns, node))
        \cup {NodeRow(seq + 1, IsoFormat(timestamp), ns, node, metrics)}

\* UNIQUE(timestamp, namespace, pod_name) and INSERT OR REPLACE INTO pod_metrics
PodRow(id, ts, ns, pod_name, node, metrics) ==
    [id |-> id, timestamp |-> ts, namespace |-> ns, pod_name |-> pod_name,
     node_name |-> node, metrics_json |-> metrics]
InsertPodMetrics(table, seq, timestamp, ns, pod_name, node, metrics) ==
    {x \in table : ~(x.timestamp = IsoFormat(timestamp) /\ x.namespace = ns
                       /\ x.pod_name = pod_name)}
        \cup {PodRow(seq + 1, IsoFormat(timestamp), ns, pod_name, node, metrics)}

\* The dictionary built from one fetched row.
RowDict(row) ==
    [id |-> row.id, timestamp |-> row.timestamp, namespace |-> row.namespace,
     node_name |-> row.node_name, total_capacity |-> row.total_capacity,
     total_allocatable |-> row.total_allocatable,
     metrics |-> JsonLoads(row.metrics_json)]

\* All the orders in which the rows of a set can be fetched.
Listings(S) ==
    {s \in [1..Cardinality(S) -> S] : \A i, j \in 1..Cardinality(S) : i # j => s[i] # s[j]}

\* query_metrics: WHERE timestamp BETWEEN ? AND ? [AND namespace = ?]
\* ORDER BY timestamp DESC; rows of one timestamp come in any order.
QueryRows(table, start_time, end_time, namespace) ==
    {x \in table :
        /\ Between(x.timestamp, IsoFormat(start_time), IsoFormat(end_time))
        /\ Truthy(namespace) => x.namespace = namespace.value}
QueryMetrics(table, start_time, end_time, namespace) ==
    {[j \in DOMAIN s |-> RowDict(s[j])] :
        s \in {l \in Listings(QueryRows(table, start_time, end_time, namespace)) :
                  \A i, j \in DOMAIN l : i < j => TextLeq(l[j].timestamp, l[i].timestamp)}}

\* get_latest_metrics: the rows whose (timestamp, namespace, node_name) is
\* (MAX(timestamp), namespace, node_name) of a group of the filtered rows.
\* MAX() and MIN() of a non-empty set of TEXT values.
MinText(T) == CHOOSE t \in T : \A y \in T : TextLeq(t, y)
MaxText(T) == CHOOSE t \in T : \A y \in T : TextLeq(y, t)
LatestRows(table, namespace) ==
    LET filtered == {x \in table : Truthy(namespace) => x.namespace = namespace.value}
        MaxOf(ns, node) ==
            MaxText({y.timestamp : y \in {z \in filtered : z.namespace = ns
                                                /\ z.node_name = node}})
    IN  {x \in table :
            \E g \in filtered :
                /\ x.namespace = g.namespace
                /\ x.node_name = g.node_name
                /\ x.timestamp = MaxOf(g.namespace, g.node_name)}
GetLatestMetrics(table, namespace) ==
    {[j \in DOMAIN s |-> RowDict(s[j])] : s \in Listings(LatestRows(table, namespace))}

\* Attribute access on a dataclass instance: AttributeError for a name the
\* class does not declare.
HasAttr(obj, a) == a \in DOMAIN obj

\* The mappings collect_all_namespaces hands over: per namespace either the
\* NodeStorage list of its pods or the empty list of a failed collection.
NoFaults ==
    [podsFail |-> {}, pvcsFail |-> {}, nodesFail |-> FALSE, badPod |-> FALSE,
     badClaim |-> FALSE]
ExportHeap == [ns \in Names |-> ProcessPods(AllPods(ns, NoFaults))]
NodeStoragesOf(ns, cl) ==
    IF ns \in cl.podsFail THEN <<>>
    ELSE EnrichWithNodeData(AggregateByNode(ns, ProcessPods(AllPods(ns, cl)), ns),
                            ListNodes(cl))
ExportData ==
    {[j \in 1..Len(order) |-> [namespace |-> order[j],
                               node_storages |-> NodeStoragesOf(order[j], cl)]] :
        order \in {<<>>, <<"B">>, <<"A", "B">>},
        cl \in {c \in Clusters : c.pvcsFail = {} /\ ~c.badPod /\ ~c.badClaim
                                    /\ c.podsFail \subseteq {"B"}}}

\* DatabaseExporter.export.  db is the database and the exception that left
\* the method, if any.
RECURSIVE ExportPods(_, _, _, _, _)
ExportPods(ns, node_storage, pods, timestamp, db) ==
    IF pods = <<>> THEN db
    ELSE LET pod == ExportHeap[Head(pods).ref][Head(pods).idx]
             pod_metrics_ == [pod_name |-> pod.name, volumes |-> pod.volumes,
                              ephemeral_storage |-> pod.ephemeral_storage]
         IN  ExportPods(ns, node_storage, Tail(pods), timestamp,
                 [db EXCEPT !.pod_metrics =
                                InsertPodMetrics(db.pod_metrics, db.pod_seq, timestamp, ns,
                                                 pod.name, node_storage.node_name,
                                                 pod_metrics_),
                            !.pod_seq = db.pod_seq + 1])

RECURSIVE ExportNodes(_, _, _, _)
ExportNodes(ns, node_storages, timestamp, db) ==
    IF node_storages = <<>> \/ db.raised # "" THEN db
    ELSE LET node_storage == Head(node_storages) IN
         IF ~HasAttr(node_storage, "node_conditions")
                \/ ~HasAttr(node_storage, "kubelet_version")
           THEN [db EXCEPT !.raised = "AttributeError"]
           ELSE LET node_metrics_ ==
                        [k \in {"total_capacity", "total_allocatable", "node_conditions",
                                "kubelet_version"} |->
                            CASE k = "total_capacity" -> node_storage.total_capacity
                              [] k = "total_allocatable" -> node_storage.total_allocatable
                              [] k = "node_conditions" -> node_storage.node_conditions
                              [] OTHER -> node_storage.kubelet_version]
                    d1 == [db EXCEPT !.node_metrics =
                                         InsertMetrics(db.node_metrics, db.node_seq, timestamp,
                                                       ns, node_storage.node_name,
                                                       node_metrics_),
                                     !.node_seq = db.node_seq + 1]
                IN  ExportNodes(ns, Tail(node_storages), timestamp,
                                ExportPods(ns, node_storage, node_storage.pods, timestamp, d1))

RECURSIVE Export(_, _, _)
Export(data, timestamp, db) ==
    IF data = <<>> \/ db.raised # "" THEN db
    ELSE Export(Tail(data), timestamp,
                ExportNodes(Head(data).namespace, Head(data).node_storages, timestamp, db))

NoCall == [op |-> "none"]

DbIdle ==
    /\ node_metrics = {}
    /\ node_seq = 0
    /\ pod_metrics = {}
    /\ pod_seq = 0
    /\ db_last = NoCall

\* SQLiteManager.__init__ on a new file: create_tables leaves both tables empty.
DbInit == DbIdle

\* SQLiteManager.insert_metrics
DbInsertMetrics ==
    /\ UNCHANGED notDb
    /\ db_last = NoCall
    /\ node_seq < MaxInserts
    /\ \E timestamp \in Datetimes, ns \in Names, m \in Metrics :
        \E node \in DbNodes(ns) :
            /\ node_metrics' = InsertMetrics(node_metrics, node_seq, timestamp, ns, node, m)
            /\ node_seq' = node_seq + 1
            /\ db_last' = [op |-> "insert_metrics", timestamp |-> timestamp,
                           namespace |-> ns, node |-> node, metrics |-> m,
                           before |-> node_metrics]
    /\ UNCHANGED <<pod_metrics, pod_seq>>

\* SQLiteManager.query_metrics
DbQueryMetrics ==
    /\ UNCHANGED notDb
    /\ db_last = NoCall
    /\ \E start_time \in Datetimes, end_time \in Datetimes, namespace \in Filters :
        \E ret \in QueryMetrics(node_metrics, start_time, end_time, namespace) :
            db_last' = [op |-> "query_metrics", start_time |-> start_time,
                        end_time |-> end_time, namespace |-> namespace, ret |-> ret]
    /\ UNCHANGED <<node_metrics, node_seq, pod_metrics, pod_seq>>

\* SQLiteManager.get_latest_metrics
DbGetLatestMetrics ==
    /\ UNCHANGED notDb
    /\ db_last = NoCall
    /\ \E namespace \in Filters :
        \E ret \in GetLatestMetrics(node_metrics, namespace) :
            db_last' = [op |-> "get_latest_metrics", namespace |-> namespace, ret |-> ret]
    /\ UNCHANGED <<node_metrics, node_seq, pod_metrics, pod_seq>>

\* DatabaseExporter.export; timestamp = datetime.now()
DbExport ==
    /\ UNCHANGED notDb
    /\ db_last = NoCall
    /\ \E data \in ExportData, timestamp \in Datetimes :
        LET db == Export(data, timestamp,
                         [node_metrics |-> node_metrics, node_seq |-> node_seq,
                          pod_metrics |-> pod_metrics, pod_seq |-> pod_seq, raised |-> ""])
        IN  /\ node_metrics' = db.node_metrics
            /\ node_seq' = db.node_seq
            /\ pod_metrics' = db.pod_metrics
            /\ pod_seq' = db.pod_seq
            /\ db_last' = [op |-> "export", data |-> data, raised |-> db.raised,
                           before |-> [node_metrics |-> node_metrics,
                                       pod_metrics |-> pod_metrics]]

\* The caller takes what the call returned and goes on to its next call.
DbReturn ==
    /\ UNCHANGED notDb
    /\ db_last # NoCall
    /\ db_last' = NoCall
    /\ UNCHANGED <<node_metrics, node_seq, pod_metrics, pod_seq>>

DbNext ==
    \/ DbInsertMetrics
    \/ DbQueryMetrics
    \/ DbGetLatestMetrics
    \/ DbExport
    \/ DbReturn

(***************************************************************************)
(* _extract_pod_storage applied to one pod                                 *)
(***************************************************************************)
MaxContainers == 2

\* What a container's resources.requests or resources.limits holds for
\* "ephemeral-storage": no dictionary at all, a dictionary without the key,
\* or a quantity string (possibly empty).
Quantities == {"", "1Gi", "2Gi"}
Declarations == {"no-dict", "no-key"} \cup Quantities

\* V1Container: resources may be None; without resources the two
\* dictionaries are not looked at.
Containers ==
    {c \in [has_resources : BOOLEAN, requests : Declarations, limits : Declarations] :
        ~c.has_resources => (c.requests = "no-dict" /\ c.limits = "no-dict")}

\* The pods handed to _extract_pod_storage: pod.spec.containers (None and the
\* empty list alike are the empty sequence).
ContainerLists == UNION {[1..n -> Containers] : n \in 0..MaxContainers}

ExtIdle ==
    /\ ext_pod = None
    /\ ext_ret = None

ExtInit ==
    /\ ext_pod \in {WithContainers(Pod("p1", "A", "n1", <<>>, "", TRUE), cs) :
                       cs \in ContainerLists}
    /\ ext_ret = None

\* pod_storage = self._extract_pod_storage(pod)
ExtExtract ==
    /\ UNCHANGED notExt
    /\ ext_ret = None
    /\ ext_ret' = ExtractPodStorage(ext_pod)
    /\ UNCHANGED ext_pod

ExtNext ==
    \/ ExtExtract

(***************************************************************************)
(* retry_with_backoff: one wrapped function called from several threads    *)
(***************************************************************************)
\* The worker threads that call the wrapped function.
Threads == {1, 2}

\* The locals of a wrapper invocation at its entry: `current_delay = delay`,
\* `last_exception = None`, the loop variable at range(...)'s first value.
\* `old` is the frame of the thread's previous invocation.
EnterLocalsKept(cfg, old) ==
    [attempt |-> 0, current_delay |-> old.current_delay, last_exception |-> None]
EnterLocals(cfg, old) ==
    [attempt |-> 0, current_delay |-> cfg.delay, last_exception |-> None]

NoFrame ==
    [pc |-> "idle", attempt |-> 0, current_delay |-> 0, last_exception |-> None,
     calls |-> <<>>, sleeps |-> <<>>, result |-> None, callNo |-> 0, before |-> <<>>]

FrIdle ==
    /\ fr_cfg = [max_retries |-> 0, delay |-> 0, backoff |-> 0]
    /\ frame = <<>>

\* The decorator is applied once; no thread is inside the wrapper.
FrInit ==
    /\ fr_cfg \in [max_retries : 0..MaxRetriesBound, delay : 1..MaxDelay,
                   backoff : 1..MaxBackoff]
    /\ frame = [t \in Threads |-> NoFrame]

\* Thread t calls the wrapper: a new frame.
FrEnter(t) ==
    /\ frame[t].pc \in {"idle", "returned", "raised"}
    /\ frame[t].callNo < MaxCalls
    /\ LET locals == EnterLocals(fr_cfg, frame[t]) IN
       frame' = [frame EXCEPT ![t] =
                    [pc |-> "loop", attempt |-> locals.attempt,
                     current_delay |-> locals.current_delay,
                     last_exception |-> locals.last_exception,
                     calls |-> <<>>, sleeps |-> <<>>, result |-> None,
                     callNo |-> frame[t].callNo + 1, before |-> frame[t].sleeps]]

\* `return func(*args, **kwargs)` with func returning, in thread t.
FrReturn(t) ==
    /\ frame[t].pc = "loop"
    /\ frame' = [frame EXCEPT ![t].calls = Append(@, "ok"),
                              ![t].result = ValueOf(Len(frame[t].calls) + 1),
                              ![t].pc = "returned"]

\* func raises an error the except clause selects, in thread t.
FrCatch(t) ==
    /\ frame[t].pc = "loop"
    /\ \E kind \in Outcomes \ {"ok"} :
        /\ Retryable(kind)
        /\ LET f == frame[t]
               e == ErrorOf(kind, Len(f.calls) + 1)
           IN  frame' = [frame EXCEPT ![t] =
                   IF LastAttempt(f.attempt, fr_cfg.max_retries)
                     THEN [f EXCEPT !.calls = Append(@, kind), !.last_exception = e,
                                    !.result = e, !.pc = "raised"]
                     ELSE [f EXCEPT !.calls = Append(@, kind), !.last_exception = e,
                                    !.sleeps = Append(@, f.current_delay),
                                    !.current_delay = NextDelay(@, fr_cfg.backoff),
                                    !.attempt = @ + 1]]

\* func raises an error the except clause does not select, in thread t.
FrPropagate(t) ==
    /\ frame[t].pc = "loop"
    /\ \E kind \in Outcomes \ {"ok"} :
        /\ ~Retryable(kind)
        /\ frame' = [frame EXCEPT ![t].calls = Append(@, kind),
                                  ![t].result = ErrorOf(kind, Len(frame[t].calls) + 1),
                                  ![t].pc = "raised"]

FrameEnter == (\E t \in Threads : FrEnter(t)) /\ UNCHANGED <<fr_cfg, notFr>>
FrameReturn == (\E t \in Threads : FrReturn(t)) /\ UNCHANGED <<fr_cfg, notFr>>
FrameCatch == (\E t \in Threads : FrCatch(t)) /\ UNCHANGED <<fr_cfg, notFr>>
FramePropagate == (\E t \in Threads : FrPropagate(t)) /\ UNCHANGED <<fr_cfg, notFr>>

FrNext ==
    \/ FrameEnter
    \/ FrameReturn
    \/ FrameCatch
    \/ FramePropagate

(***************************************************************************)
(* Specifications                                                          *)
(***************************************************************************)
InitRetry == RetryInit /\ CacheIdle /\ PoolIdle /\ CollectIdle /\ NsIdle /\ AggIdle /\ DbIdle /\ ExtIdle /\ FrIdle
SpecRetry == InitRetry /\ [][RetryNext]_vars

InitCache == CacheInit /\ RetryIdle /\ PoolIdle /\ CollectIdle /\ NsIdle /\ AggIdle /\ DbIdle /\ ExtIdle /\ FrIdle
SpecCache == InitCache /\ [][CacheNext]_vars

InitPool == PoolInit /\ RetryIdle /\ CacheIdle /\ CollectIdle /\ NsIdle /\ AggIdle /\ DbIdle /\ ExtIdle /\ FrIdle
SpecPool == InitPool /\ [][PoolNext]_vars

InitCollect == CollectInit /\ RetryIdle /\ NsIdle /\ AggIdle /\ DbIdle /\ ExtIdle /\ FrIdle
SpecCollect == InitCollect /\ [][CollectNext]_vars

InitNamespace == NsInit /\ RetryIdle /\ PoolIdle /\ AggIdle /\ DbIdle /\ ExtIdle /\ FrIdle
SpecNamespace == InitNamespace /\ [][NsNext]_vars

InitAggregate == AggInit /\ RetryIdle /\ CacheIdle /\ PoolIdle /\ CollectIdle /\ NsIdle /\ DbIdle /\ ExtIdle /\ FrIdle
SpecAggregate == InitAggregate /\ [][AggNext]_vars

InitDatabase == DbInit /\ RetryIdle /\ CacheIdle /\ PoolIdle /\ CollectIdle /\ NsIdle /\ AggIdle /\ ExtIdle /\ FrIdle
SpecDatabase == InitDatabase /\ [][DbNext]_vars

InitExtract == ExtInit /\ RetryIdle /\ CacheIdle /\ PoolIdle /\ CollectIdle /\ NsIdle /\ AggIdle /\ DbIdle /\ FrIdle
SpecExtract == InitExtract /\ [][ExtNext]_vars

InitRetryThreads == FrInit /\ RetryIdle /\ CacheIdle /\ PoolIdle /\ CollectIdle /\ NsIdle /\ AggIdle /\ DbIdle /\ ExtIdle
SpecRetryThreads == InitRetryThreads /\ [][FrNext]_vars


(***************************************************************************)
(* Properties of the pool                                                  *)
(***************************************************************************)
\* How often value v occurs in sequence s.
Count(s, v) == Cardinality({j \in 1..Len(s) : s[j] = v})
\* How many units returned value v.
Returned(v) == Cardinality({i \in Indices : fut[i].state = "returned" /\ fut[i].result = v})
ExecuteEnded == pcCaller \in {"exit_ok", "exit_exc", "left", "raised"}
ExecuteReturned == pcCaller \in {"exit_ok", "left"}

\* C2: when the timeout elapses while units are still in flight,
\* execute_parallel returns normally (with the results gathered so far); the
\* call does not end with an error.
C2_TimeoutReturnsNormally ==
    (ExecuteEnded /\ pendingFs # {}) => (ExecuteReturned /\ escaped = None)

\* C3: with a unit that never completes, the pool run (enter, execute_parallel,
\* exit) still ends once the timeout has fired: the caller is never left
\* blocked with nothing able to release it.
C3_PoolRunTerminates ==
    escaped # None => (pcCaller = "raised" \/ ENABLED PoolNext)

C16_PoolLifetime ==
    /\ (\E i \in Indices : fut[i].state # "none") => executor # "none"
    /\ pcCaller = "start" => executor = "none"
    /\ pcCaller \in {"entered", "submitted", "iterating", "exit_ok", "exit_exc"} =>
          executor = "open"
    /\ pcCaller \in {"left", "raised", "done"} =>
          (executor = "shutdown" /\ Queued = {} /\ Running = {})

\* A run that ended by the timeout error, after one unit had raised and the
\* unit still in flight had finished; the executor is shut down.
C16_Witness ==
    /\ pcCaller = "raised"
    /\ escaped # None
    /\ logged # {}
    /\ executor = "shutdown"
    /\ \E i \in Indices : i \in pendingFs /\ fut[i].state = "returned"

(***************************************************************************)
(* Properties of the orchestrator                                          *)
(***************************************************************************)
\* A list of NodeStorage as its reader sees it: the PodStorage objects it
\* holds, looked up in the lists they live in.
ViewNodes(nodes, h) ==
    [g \in 1..Len(nodes) |->
        [node_name |-> nodes[g].node_name,
         namespace |-> nodes[g].namespace,
         pods |-> [m \in 1..Len(nodes[g].pods) |->
                      h[nodes[g].pods[m].ref][nodes[g].pods[m].idx]],
         total_capacity |-> nodes[g].total_capacity,
         total_allocatable |-> nodes[g].total_allocatable]]
ViewDict(d, h) == [n \in DOMAIN d |-> ViewNodes(d[n], h)]

\* collect_namespace run alone, from its first step to its return.
RECURSIVE RunToEnd(_, _, _, _, _)
RunToEnd(w, t, cfg, i, cl) ==
    LET r == Step(w, t, cfg, i, cl) IN
    IF r.ret # None THEN [w |-> r.w, ret |-> r.ret] ELSE RunToEnd(r.w, r.t, cfg, i, cl)

\* collect_namespace for the items named by `order`, one after the other,
\* on a freshly constructed FilesystemCollector.
RECURSIVE SeqRun(_, _, _, _)
SeqRun(order, k, w, rs) ==
    IF k > Len(order) THEN [w |-> w, rs |-> rs]
    ELSE LET r == RunToEnd(w, NewTask, items[order[k]], order[k], cluster)
         IN  SeqRun(order, k + 1, r.w, Append(rs, r.ret))

World0 == [cache |-> NoStore, heap |-> <<>>, errors |-> <<>>, now |-> 0, ttl |-> ttl]

\* The mapping the sequential run in that order gives.
SeqMapping(order) ==
    LET r == SeqRun(order, 1, World0, <<>>)
    IN  ViewDict(BuildDict(r.rs, items, <<>>), r.w.heap)

\* Every order of the items.
Orders ==
    {o \in [Indices -> Indices] : \A a, b \in Indices : a # b => o[a] # o[b]}

DistinctNames == \A a, b \in Indices : a # b => items[a].name # items[b].name
CallEnded == pcCaller \in {"done", "raised"}
Idx(n) == CHOOSE i \in Indices : items[i].name = n

\* The case of C1: one spec for A, one for B; every pod listing of A fails and
\* nothing else goes wrong.
IsolationCase ==
    /\ Len(items) = 2
    /\ {items[i].name : i \in Indices} = {"A", "B"}
    /\ cluster.podsFail = {"A"}

\* C1: with A's fetch always failing and B's always succeeding,
\* collect_all_namespaces returns a mapping with the empty list for A and B's
\* aggregated list, A's error counter has been incremented, and no error
\* leaves collect_all_namespaces.
C1_NamespaceIsolation ==
    (IsolationCase /\ CallEnded) =>
        /\ pcCaller = "done"
        /\ escaped = None
        /\ DOMAIN result_dict.map = {"A", "B"}
        /\ result_dict.map["A"] = <<>>
        /\ ViewNodes(result_dict.map["B"], heap) = SeqMapping(<<Idx("B")>>)["B"]
        /\ <<"A", "ApiException">> \in DOMAIN errors

\* C4 as stated: the mapping collect_all_namespaces returns equals the mapping
\* of the sequential run of collect_namespace over the same specs in any order.
C4_AnyListCommutes ==
    pcCaller = "done" =>
        \A o \in Orders : ViewDict(result_dict.map, heap) = SeqMapping(o)

\* C4 amended: for namespace specs with pairwise distinct names, whenever
\* collect_all_namespaces returns, its mapping equals the mapping of the
\* sequential run of collect_namespace over the same specs in any order.
C4_Commutativity ==
    (pcCaller = "done" /\ DistinctNames) =>
        \A o \in Orders : ViewDict(result_dict.map, heap) = SeqMapping(o)

\* Two namespaces collected concurrently, the second finishing first, both
\* with node records in the returned mapping.
C4_Witness ==
    /\ pcCaller = "done"
    /\ DistinctNames
    /\ Len(results) = 2
    /\ results[1].cfg = 2
    /\ \A n \in {"A", "B"} : n \in DOMAIN result_dict.map /\ result_dict.map[n] # <<>>

\* The failure of task i is the failure of its own pod or claim collection.
OwnCollectionFailed(i) ==
    \/ items[i].name \in cluster.podsFail
    \/ items[i].include_pvcs /\ items[i].name \in cluster.pvcsFail
    \/ items[i].include_pvcs /\ ClaimsRaise(AllClaims(items[i].name, cluster))

\* C17: a task that got past aggregation completes with its aggregated list,
\* whether or not the node listing fails: it returns one NodeStorage per
\* group of its pod list, with totals unset everywhere when the listing
\* failed and otherwise set, from the node of that name, exactly for the
\* records whose node name the listing returned; a task ends as failed only
\* when its own pod or claim collection failed, never for the node listing.
C17_NodeEnrichmentNonFatal ==
    \A i \in Indices :
        /\ task[i].pc = "failed" => OwnCollectionFailed(i)
        /\ task[i].pc = "done" =>
              LET agg == AggregateByNode(items[i].name, heap[task[i].pod_storages],
                                         task[i].pod_storages)
                  ns == fut[i].result.nodes
              IN  /\ fut[i].state = "returned"
                  /\ fut[i].result.tag = "pair"
                  /\ Len(ns) = Len(agg)
                  /\ \A g \in 1..Len(ns) :
                        /\ ns[g].node_name = agg[g].node_name
                        /\ ns[g].namespace = agg[g].namespace
                        /\ ns[g].pods = agg[g].pods
                        /\ IF ~cluster.nodesFail /\ ns[g].node_name \in DOMAIN AllNodes
                             THEN /\ ns[g].total_capacity = AllNodes[ns[g].node_name].capacity
                                  /\ ns[g].total_allocatable =
                                        AllNodes[ns[g].node_name].allocatable
                             ELSE /\ ns[g].total_capacity = ""
                                  /\ ns[g].total_allocatable = ""

\* The node listing failed and collect_all_namespaces returned a mapping in
\* which namespace A has its node records, all without totals.
C17_Witness ==
    /\ cluster.nodesFail
    /\ pcCaller = "done"
    /\ "A" \in DOMAIN result_dict.map
    /\ Len(result_dict.map["A"]) = 2
    /\ \A g \in 1..2 : result_dict.map["A"][g].total_capacity = ""

\* Where task i may go in one step from where it is.
Successors(i) ==
    LET pc == task[i].pc
        next == IF items[i].include_pvcs THEN "pvc_get" ELSE "enrich"
    IN  CASE pc = "pods_get" -> {"pods_fetch", next}
          [] pc = "pods_fetch" -> {next, "failed"}
          [] pc = "pvc_get" -> {"pvc_fetch", "enrich"}
          [] pc = "pvc_fetch" -> {"enrich", "failed"}
          [] pc = "enrich" -> {"aggregate"}
          [] pc = "aggregate" -> {"nodes"}
          [] pc = "nodes" -> {"done"}
          [] OTHER -> {}

\* A step moves at most one task, a running one, to a successor position.
OrderedStep ==
    /\ \A i \in Indices :
          task'[i].pc # task[i].pc =>
              /\ fut[i].state = "running"
              /\ task'[i].pc \in Successors(i)
    /\ \A i, j \in Indices :
          (task'[i].pc # task[i].pc /\ task'[j].pc # task[j].pc) => i = j

\* Claim collection is entered only with claims enabled and the pod list in
\* hand; the later steps only with the pod list in hand.
OrderedPositions ==
    \A i \in Indices :
        /\ task[i].pc \in {"pvc_get", "pvc_fetch"} =>
              (items[i].include_pvcs /\ task[i].pod_storages # 0)
        /\ task[i].pc \in {"enrich", "aggregate", "nodes", "done"} =>
              task[i].pod_storages # 0
        /\ task[i].pc # "pods_get" => fut[i].state # "queued"

\* C20: inside one task the steps run in the order pod collection, claim
\* collection (only with claims enabled), claim enrichment, aggregation, node
\* enrichment, done; claim collection starts only after pod collection has
\* returned and never after it failed; a failed or finished task moves no
\* more; tasks step one at a time and independently of each other.
C20_StepOrder == []OrderedPositions /\ [][OrderedStep]_vars

\* Two tasks of different namespaces both under way: the first in its claim
\* collection while the second, started later, is already aggregating.
C20_Witness ==
    /\ Len(items) = 2
    /\ items[1].name # items[2].name
    /\ task[1].pc = "pvc_fetch"
    /\ task[2].pc = "aggregate"

\* The names of the pods the list of NodeStorage covers.
PodsIn(nodes, h) ==
    UNION {{h[nodes[g].pods[m].ref][nodes[g].pods[m].idx].name :
                m \in 1..Len(nodes[g].pods)} : g \in 1..Len(nodes)}

\* The names of the pods returned by the fetch that produced list `ref`.
FetchedFor(ref) ==
    LET l == ListPods(cluster, items[ref].name, items[ref].label_selector)
    IN  {l.items[j].name : j \in 1..Len(l.items)}

\* C6: the list returned for a namespace is either aggregated from every pod
\* the fetch returned, or empty; never a list covering part of the pods.
C6_AllOrNothing ==
    \A i \in Indices :
        (fut[i].state = "returned" /\ fut[i].result.nodes # <<>>) =>
            PodsIn(fut[i].result.nodes, heap) = FetchedFor(task[i].pod_storages)

(***************************************************************************)
(* Properties of the collector stage                                       *)
(***************************************************************************)
StageCalled == last.stage # "none"
Invoked(op) == \E j \in 1..Len(last.ops) : last.ops[j] = op

\* C11: the cache key identifies (stage, namespace, selectors): with a healthy
\* sink, the key of a collect call was last written, if at all, by a call
\* with the same query, so that a hit never hands back the result of a
\* different query.
C11_CacheKeyUnique ==
    (StageCalled /\ sink = {} /\ last.before # None) => last.before.query = last.query

\* The latest cache.set of the call's key was made by a call that succeeded,
\* and the call comes within the ttl of that set.
WithinTTLOfSuccess ==
    /\ StageCalled
    /\ last.before # None
    /\ last.before.ok
    /\ last.at <= last.before.timestamp + ttl

\* C12: a collect call that succeeds on a miss leaves its transformed result
\* in the cache under its key, and a later collect for that key within the
\* ttl returns that stored result and invokes nothing but the cache read: no
\* validation, no timer, no fetch, no transform, no duration or error metric.
C12_CacheAside ==
    /\ (StageCalled /\ last.ok /\ ~last.hit) =>
          /\ last.key \in DOMAIN cache
          /\ cache[last.key] = [value |-> last.value, timestamp |-> last.at]
          /\ Invoked("fetch") /\ Invoked("transform") /\ Invoked("cache_set")
    /\ WithinTTLOfSuccess =>
          /\ last.ok
          /\ last.hit
          /\ last.value = last.before.value
          /\ last.ops = <<"cache_get">>
          /\ last.key \in DOMAIN cache
          /\ cache[last.key] = [value |-> last.before.value,
                                timestamp |-> last.before.timestamp]

\* A pod collect at a later time, still within the ttl of the successful call
\* that stored the list, answered from the cache.
C12_Witness ==
    /\ WithinTTLOfSuccess
    /\ last.stage = PodStage
    /\ last.at > last.before.timestamp
    /\ last.hit
    /\ last.value = last.before.value

\* C13: with a healthy sink, a collect call with an empty namespace fails with
\* the validation error, validation being the first thing the call does: the
\* cache is not consulted, no fetch is invoked and nothing is written.
C13_ValidationFirst ==
    (StageCalled /\ sink = {} /\ last.query.namespace = "") =>
        /\ ~last.ok
        /\ last.error = "ValueError"
        /\ last.ops[1] = "validate"
        /\ ~Invoked("cache_get")
        /\ ~Invoked("fetch")
        /\ ~Invoked("cache_set")

\* The call met a failure of validation, of the fetch, or of the conversion
\* of one fetched record.
StageFailure ==
    /\ StageCalled
    /\ ~last.hit
    /\ \/ ~Validate(last.query.namespace)
       \/ (last.stage = PodStage /\ last.query.namespace \in cluster.podsFail)
       \/ (last.stage = PvStage /\ last.query.namespace \in cluster.pvcsFail)
       \/ last.bad > 0

\* C14: with a healthy sink, a collect call that meets such a failure records
\* an error count and raises; it returns no result.
C14_NeverSwallows ==
    (StageFailure /\ sink = {}) =>
        /\ ~last.ok
        /\ last.ops[Len(last.ops)] = "record_error"
        /\ <<last.query.namespace, last.error>> \in DOMAIN errors

\* C15: with the cluster API healthy, a collect_namespace call for a named
\* namespace returns a populated list whatever the sink does, and the first
\* call returns the list it returns with a sink that never raises.
C15_SinkNeverFails ==
    (NsEnded /\ FaultCount(cluster) = 0 /\ ncfg.name # "") =>
        /\ nret.tag = "pair"
        /\ nret.nodes # <<>>
        /\ ncall = 1 =>
              LET ref == RunToEnd(World0, NewTask, ncfg, 1, cluster)
              IN  ViewNodes(nret.nodes, heap) = ViewNodes(ref.ret.nodes, ref.w.heap)

\* The volumes of the PodStorage list the current call works on.
NsVolumes ==
    LET pods == heap[nloc.pod_storages] IN
    UNION {{pods[j].volumes[k] : k \in 1..Len(pods[j].volumes)} : j \in 1..Len(pods)}

\* C18: when the enrichment step of a collect_namespace call is over, every
\* volume of its pod list whose claim name is a key of the call's claim map
\* has the capacity of that entry, and every other volume has no capacity.
C18_ClaimEnrichment ==
    (npc = "aggregate" /\ sink = {}) =>
        \A v \in NsVolumes :
            IF v.pvc_name # "" /\ v.pvc_name \in DOMAIN nloc.pvc_map
              THEN v.capacity = nloc.pvc_map[v.pvc_name].capacity
              ELSE v.capacity = ""

(***************************************************************************)
(* Properties of aggregation                                               *)
(***************************************************************************)
\* The groups of the returned list, and the pods (by place in the pod list)
\* of group g.
Groups == 1..Len(agg_nodes.list)
Members(g) ==
    {agg_nodes.list[g].pods[k].idx : k \in 1..Len(agg_nodes.list[g].pods)}
NodeOfRaw(j) == IF agg_raw[j].node_name = "" THEN "unscheduled" ELSE agg_raw[j].node_name

\* C19: _aggregate_by_node yields exactly one NodeStorage per distinct node
\* value of the pod list, "unscheduled" standing for an unset node and
\* forming its own group; every pod is in exactly one NodeStorage, the one of
\* its node, once; every NodeStorage carries the namespace argument; and
\* nodes [A, A, B] plus one unset node give A (2 pods), B (1), unscheduled (1).
C19_AggregationCorrectness ==
    agg_nodes # None =>
        /\ Len(agg_pods.list) = Len(agg_raw)
        /\ \A j \in 1..Len(agg_raw) : agg_pods.list[j].node = NodeOfRaw(j)
        /\ \A g, h \in Groups :
              g # h => agg_nodes.list[g].node_name # agg_nodes.list[h].node_name
        /\ {agg_nodes.list[g].node_name : g \in Groups}
              = {NodeOfRaw(j) : j \in 1..Len(agg_raw)}
        /\ \A j \in 1..Len(agg_raw) :
              \A g \in Groups :
                  j \in Members(g) <=> agg_nodes.list[g].node_name = NodeOfRaw(j)
        /\ \A g \in Groups :
              /\ Len(agg_nodes.list[g].pods) = Cardinality(Members(g))
              /\ agg_nodes.list[g].namespace = agg_namespace
              /\ \A j \in Members(g) : agg_pods.list[j].namespace = agg_namespace
        /\ [j \in 1..Len(agg_raw) |-> agg_raw[j].node_name] = <<"A", "A", "B", "">> =>
              /\ Len(agg_nodes.list) = 3
              /\ [g \in Groups |-> agg_nodes.list[g].node_name] = <<"A", "B", "unscheduled">>
              /\ [g \in Groups |-> Len(agg_nodes.list[g].pods)] = <<2, 1, 1>>

\* The listing with nodes [A, A, B] and one unset node, aggregated.
C19_Witness ==
    /\ agg_nodes # None
    /\ [j \in 1..Len(agg_raw) |-> agg_raw[j].node_name] = <<"A", "A", "B", "">>
    /\ Len(agg_nodes.list) = 3

(***************************************************************************)
(* Properties of the retry wrapper                                         *)
(***************************************************************************)
RECURSIVE Pow(_, _)
Pow(b, e) == IF e = 0 THEN 1 ELSE b * Pow(b, e - 1)

AllRetryable(s) == \A j \in 1..Len(s) : s[j] = "api"

\* C7: an operation that fails with a retryable error on every attempt is
\* invoked exactly max_retries + 1 times, with max_retries sleeps, and the
\* wrapper then raises the error of the last attempt.
C7_RetryCount ==
    /\ Len(calls) <= rcfg.max_retries + 1
    /\ (rpc = "raised" /\ AllRetryable(calls)) =>
        /\ Len(calls) = rcfg.max_retries + 1
        /\ Len(sleeps) = rcfg.max_retries
        /\ rresult = ErrorOf("api", rcfg.max_retries + 1)
        /\ last_exception = rresult

C7_Witness ==
    /\ rpc = "raised"
    /\ rcfg.max_retries = 3
    /\ calls = <<"api", "api", "api", "api">>
    /\ rresult.at = 4

\* C8: an operation that fails with retryable errors on attempts 1..k and
\* succeeds on attempt k+1 makes the wrapper sleep exactly k times, for
\* D, D*B, ..., D*B^(k-1) in that order, return the value of attempt k+1 and
\* invoke nothing more.
C8_RetrySchedule ==
    rpc = "returned" =>
        LET k == Len(calls) - 1 IN
        /\ k \in 0..rcfg.max_retries
        /\ calls[k + 1] = "ok"
        /\ \A j \in 1..k : calls[j] = "api"
        /\ Len(sleeps) = k
        /\ \A j \in 1..k : sleeps[j] = rcfg.delay * Pow(rcfg.backoff, j - 1)
        /\ rresult = ValueOf(k + 1)
        /\ ~ENABLED (RetryReturn \/ RetryCatch \/ RetryPropagate)

C8_Witness ==
    /\ rpc = "returned"
    /\ rcfg.delay = 1 /\ rcfg.backoff = 2
    /\ sleeps = <<1, 2, 4>>
    /\ rresult = ValueOf(4)

\* C9: a failure of a kind the wrapper does not retry leaves the wrapper at
\* once: it is the last invocation, no sleep follows it and no retry is made;
\* when it is the first attempt the operation was invoked exactly once and
\* nothing slept.
C9_NonRetryablePropagates ==
    \A j \in 1..Len(calls) : calls[j] = "other" =>
        /\ j = Len(calls)
        /\ rpc = "raised"
        /\ rresult = ErrorOf("other", j)
        /\ Len(sleeps) = j - 1
        /\ ~ENABLED (RetryReturn \/ RetryCatch \/ RetryPropagate)

C9_Witness ==
    /\ rpc = "raised"
    /\ rcfg.max_retries = 3
    /\ calls = <<"other">>
    /\ sleeps = <<>>

(***************************************************************************)
(* Properties of the cache                                                 *)
(***************************************************************************)
\* The last operation was a get of a key whose last set (at t0, value v) was
\* followed by no set, invalidate or clear of that key.
GetAfterSet == cacheRet.op = "get" /\ cacheRet.key \in DOMAIN lastSet

TTLReads ==
    GetAfterSet =>
        LET k == cacheRet.key
            t0 == lastSet[k].timestamp
        IN  IF cacheRet.at <= t0 + ttl
              THEN /\ cacheRet.ret = lastSet[k].value
                   /\ k \in DOMAIN cache
                   /\ cache[k] = lastSet[k]
              ELSE /\ cacheRet.ret = None
                   /\ k \notin DOMAIN cache

\* An entry leaves the store only in a get of that key that finds it expired,
\* in an invalidate of that key or in a clear; the passing of time removes
\* nothing.
LazyExpiry ==
    \A k \in DOMAIN cache : k \notin DOMAIN cache' =>
        \/ cacheRet'.op = "get" /\ cacheRet'.key = k /\ now > cache[k].timestamp + ttl
        \/ cacheRet'.op = "invalidate" /\ cacheRet'.key = k
        \/ cacheRet'.op = "clear"

\* C10: after set(key, v) at t0 with no later set/invalidate/clear of the key,
\* a get at t <= t0 + ttl returns v, a get at t > t0 + ttl returns a miss and
\* removes the entry; expiry happens only inside get.
C10_TTLCorrectness == []TTLReads /\ [][LazyExpiry]_vars

\* A get past the ttl returned a miss and removed its entry while another
\* key's expired entry, not read, is still in the store.
C10_Witness ==
    /\ GetAfterSet
    /\ cacheRet.at > lastSet[cacheRet.key].timestamp + ttl
    /\ cacheRet.ret = None
    /\ \E k \in DOMAIN cache : k # cacheRet.key /\ now > cache[k].timestamp + ttl

(***************************************************************************)
(* Claims about the database                                               *)
(***************************************************************************)
\* The datetime a stored timestamp text was written from.
DatetimeOf(text) == CHOOSE t \in Datetimes : IsoFormat(t) = text

\* Distinct datetimes are stored as distinct texts.
IsoFormatKeepsApart ==
    \A a, b \in Datetimes : IsoFormat(a) = IsoFormat(b) => a = b

SameTriple(x, y) ==
    /\ x.timestamp = y.timestamp
    /\ x.namespace = y.namespace
    /\ x.node_name = y.node_name

InsertCalled == db_last.op = "insert_metrics"

\* The rows stored before the insert under the triple it was called with.
InsertedOver ==
    {x \in db_last.before :
        /\ DatetimeOf(x.timestamp) = db_last.timestamp
        /\ x.namespace = db_last.namespace
        /\ x.node_name = db_last.node}

\* The rows the insert wrote: those of its triple afterwards.
InsertedRows ==
    {x \in node_metrics :
        /\ DatetimeOf(x.timestamp) = db_last.timestamp
        /\ x.namespace = db_last.namespace
        /\ x.node_name = db_last.node}

\* C21: node_metrics never holds two rows with one (timestamp, namespace,
\* node_name); an insert_metrics call with a triple not yet stored adds
\* exactly one row and keeps every other row, and a call with a stored triple
\* puts its row in the place of the stored one, the number of rows unchanged.
C21_NodeMetricUpsert ==
    /\ IsoFormatKeepsApart
    /\ \A x, y \in node_metrics : SameTriple(x, y) => x = y
    /\ InsertCalled =>
        /\ Cardinality(InsertedRows) = 1
        /\ \A x \in InsertedRows :
            /\ x \notin db_last.before
            /\ JsonLoads(x.metrics_json) = db_last.metrics
            /\ x.total_capacity = DictGet(db_last.metrics, "total_capacity")
        /\ node_metrics \ InsertedRows = db_last.before \ InsertedOver
        /\ InsertedOver = {} =>
              Cardinality(node_metrics) = Cardinality(db_last.before) + 1
        /\ InsertedOver # {} =>
              Cardinality(node_metrics) = Cardinality(db_last.before)

\* An insert replaced a stored row that carried other metrics, next to a row
\* of another triple.
C21_Witness ==
    /\ InsertCalled
    /\ Cardinality(node_metrics) = 2
    /\ \E x \in InsertedOver : JsonLoads(x.metrics_json) # db_last.metrics

LatestCalled == db_last.op = "get_latest_metrics"

\* The stored rows a namespace argument selects.
InNamespace(namespace) ==
    {x \in node_metrics : Truthy(namespace) => x.namespace = namespace.value}

RowsOfPair(ns, node) == {x \in node_metrics : x.namespace = ns /\ x.node_name = node}

Returned_(j) == db_last.ret[j]

\* C22: get_latest_metrics(namespace) returns exactly one row for every
\* (namespace, node) pair with stored rows in the namespace asked for (in any
\* namespace when none is asked for), that row is a stored row of the pair, no
\* stored row of the pair has a later timestamp, and nothing else is returned.
C22_LatestPerNode ==
    LatestCalled =>
        /\ \A x \in InNamespace(db_last.namespace) :
              Cardinality({j \in DOMAIN db_last.ret :
                              /\ Returned_(j).namespace = x.namespace
                              /\ Returned_(j).node_name = x.node_name}) = 1
        /\ \A j \in DOMAIN db_last.ret :
              /\ \E x \in InNamespace(db_last.namespace) : Returned_(j) = RowDict(x)
              /\ \A y \in RowsOfPair(Returned_(j).namespace, Returned_(j).node_name) :
                    NotAfter(DatetimeOf(y.timestamp), DatetimeOf(Returned_(j).timestamp))

\* Latest rows were asked for namespace A while it holds two rows of one node
\* and namespace B holds a row: one row came back, the later one.
C22_Witness ==
    /\ LatestCalled
    /\ db_last.namespace = Str("A")
    /\ Cardinality(RowsOfPair("A", "n1")) = 2
    /\ RowsOfPair("B", "n1") # {}
    /\ Len(db_last.ret) = 1

QueryCalled == db_last.op = "query_metrics"

\* The stored rows inside the closed range and, with a namespace asked for, of
\* that namespace.
InRange ==
    {x \in node_metrics :
        /\ NotAfter(db_last.start_time, DatetimeOf(x.timestamp))
        /\ NotAfter(DatetimeOf(x.timestamp), db_last.end_time)
        /\ Truthy(db_last.namespace) => x.namespace = db_last.namespace.value}

\* C23: query_metrics(start, end, namespace) returns every stored row whose
\* timestamp lies in [start, end] and whose namespace is the one asked for
\* (any, when none is asked for), each once, no other row, newest first.
C23_RangeQuery ==
    QueryCalled =>
        /\ {Returned_(j) : j \in DOMAIN db_last.ret} = {RowDict(x) : x \in InRange}
        /\ Len(db_last.ret) = Cardinality(InRange)
        /\ \A i, j \in DOMAIN db_last.ret :
              i < j => NotAfter(DatetimeOf(Returned_(j).timestamp),
                                DatetimeOf(Returned_(i).timestamp))

\* A query for namespace A whose range ends at a stored timestamp returned
\* that row, and left out a later row of A and a row of B inside the range.
C23_Witness ==
    /\ QueryCalled
    /\ db_last.namespace = Str("A")
    /\ Len(db_last.ret) = 1
    /\ DatetimeOf(Returned_(1).timestamp) = db_last.end_time
    /\ \E x \in node_metrics \ InRange : x.namespace = "A"
    /\ \E x \in node_metrics \ InRange :
          /\ x.namespace = "B"
          /\ NotAfter(db_last.start_time, DatetimeOf(x.timestamp))
          /\ NotAfter(DatetimeOf(x.timestamp), db_last.end_time)

ExportCalled == db_last.op = "export"

\* C24: export(data) of a mapping the orchestrator produced returns without an
\* exception, and afterwards node_metrics holds a row for every NodeStorage of
\* data and pod_metrics a row for every pod of every NodeStorage.
C24_ExportStoresAll ==
    ExportCalled =>
        /\ db_last.raised = ""
        /\ \A j \in DOMAIN db_last.data :
            \A g \in DOMAIN db_last.data[j].node_storages :
                LET n == db_last.data[j].node_storages[g] IN
                /\ \E x \in node_metrics \ db_last.before.node_metrics :
                      x.namespace = db_last.data[j].namespace /\ x.node_name = n.node_name
                /\ \A k \in DOMAIN n.pods :
                      \E x \in pod_metrics \ db_last.before.pod_metrics :
                          /\ x.namespace = db_last.data[j].namespace
                          /\ x.pod_name = ExportHeap[n.pods[k].ref][n.pods[k].idx].name

(***************************************************************************)
(* Claims about the extraction of one pod                                  *)
(***************************************************************************)
Extracted == ext_ret # None

\* The declarations of a pod in scan order: slot 2c-1 is the request of
\* container c, slot 2c its limit.
Slots == 1..(2 * Len(ext_pod.containers))
SlotValue(k) ==
    LET container == ext_pod.containers[(k + 1) \div 2] IN
    IF ~container.has_resources THEN "no-dict"
    ELSE IF k % 2 = 1 THEN container.requests ELSE container.limits
NonEmptySlots == {k \in Slots : SlotValue(k) \notin {"no-dict", "no-key", ""}}

\* C25: the ephemeral-storage value of the PodStorage is the value of the
\* last slot, in scan order, that holds a non-empty value, and it is unset
\* exactly when no slot does.
C25_EphemeralLastWriteWins ==
    Extracted =>
        /\ NonEmptySlots = {} <=> ext_ret.ephemeral_storage = Null
        /\ NonEmptySlots # {} =>
              \E k \in NonEmptySlots :
                  /\ \A other \in NonEmptySlots : other <= k
                  /\ ext_ret.ephemeral_storage = SlotValue(k)

\* The first container limits 2Gi, the second requests 1Gi and limits
\* nothing: the pod carries 1Gi, which is neither the first nor the greatest.
C25_Witness ==
    /\ Extracted
    /\ Len(ext_pod.containers) = 2
    /\ ext_pod.containers[1].limits = "2Gi"
    /\ ext_pod.containers[2].requests = "1Gi"
    /\ ext_pod.containers[2].limits = "no-key"
    /\ ext_ret.ephemeral_storage = "1Gi"

(***************************************************************************)
(* Claims about the returned mapping and the error counters                *)
(***************************************************************************)
NamesOf(its) == {its[i].name : i \in DOMAIN its}

\* The specs whose namespace no other spec of the list names.
OnlySpecOfName(i) == \A j \in Indices : items[j].name = items[i].name => j = i

\* C26: when collect_all_namespaces returns (no timeout left the pool), every
\* task has returned a (spec, list) pair, the keys of the mapping are the
\* names of the specs, and a spec whose collection failed is under its name
\* with the empty list (the list of the spec of that name that was folded in
\* last, when several specs share the name).
C26_ResultCompleteness ==
    pcCaller = "done" =>
        /\ \A i \in Indices : fut[i].state = "returned" /\ fut[i].result.tag = "pair"
        /\ DOMAIN result_dict.map = NamesOf(items)
        /\ \A i \in Indices :
              task[i].pc = "failed" =>
                  /\ items[i].name \in DOMAIN result_dict.map
                  /\ fut[i].result.nodes = <<>>
                  /\ OnlySpecOfName(i) => result_dict.map[items[i].name] = <<>>

\* A mapping returned for the specs A and B of which A failed: A is there
\* with the empty list, B with its NodeStorage list.
C26_Witness ==
    /\ pcCaller = "done"
    /\ NamesOf(items) = {"A", "B"}
    /\ \E i \in Indices : items[i].name = "A" /\ task[i].pc = "failed"
    /\ result_dict.map["A"] = <<>>
    /\ result_dict.map["B"] # <<>>

(***************************************************************************)
(* Claims about the cache as the collector stages leave it                 *)
(***************************************************************************)
\* A step that is one BaseCollector.collect call.
StageStep == npc \in {"pods", "pvc"} /\ npc' # npc

\* The call of this step failed: an exception left it.
StageFailed == StageStep /\ ~last'.ok

\* The step wrote nothing to the cache: every key but the call's own has the
\* entry it had, the call's own key has its entry or (an expired entry being
\* dropped by the read) none, and a read of it misses as the call's read did.
CacheLeftAlone ==
    /\ last'.written = None
    /\ \A k \in (DOMAIN cache \cup DOMAIN cache') \ {last'.key} :
          k \in DOMAIN cache /\ k \in DOMAIN cache' /\ cache'[k] = cache[k]
    /\ last'.key \in DOMAIN cache' =>
          last'.key \in DOMAIN cache /\ cache'[last'.key] = cache[last'.key]
    /\ CacheGet(cache', last'.key, now', ttl').ret = None

\* C27: with a healthy sink, a collect call that fails - in validation, in the
\* fetch, or in the transformation - writes no cache entry and touches no
\* other key, so that the next collect for its key fetches again.
C27_FailedCollectLeavesCache ==
    [][(StageFailed /\ sink = {}) => CacheLeftAlone]_vars

\* The second call for namespace A, within the TTL of the first: its pod list
\* is in the cache, and its claim collection fetched again and failed in the
\* transformation as the first call's did, leaving no entry.
C27_Witness ==
    /\ ncall = 2
    /\ sink = {}
    /\ last.stage = PvStage
    /\ ~last.ok
    /\ last.error = "AttributeError"
    /\ Invoked("fetch")
    /\ last.before = None
    /\ CacheKey(PodStage, "A") \in DOMAIN cache
    /\ CacheKey(PvStage, "A") \notin DOMAIN cache

(***************************************************************************)
(* Claims about the PodStorage lists the tasks share through the cache     *)
(***************************************************************************)
\* Task i got its pod list from the cache: the list was made by another task.
GotFromCache(i) == task[i].pod_storages \notin {0, i}

\* Task j has run _enrich_with_pvc_data on its pod list.
HasEnriched(j) == task[j].pod_storages # 0 /\ task[j].pc \in {"aggregate", "nodes", "done"}

\* The list that task L stored under its cache key, as _process_data made it.
AsStored(L) ==
    ProcessPods(ListPods(cluster, items[L].name, items[L].label_selector).items)

\* The claim entries the enrichments run on list L so far have applied.
AppliedTo(L) ==
    LET users == {j \in Indices : task[j].pod_storages = L /\ HasEnriched(j)}
        claims == UNION {DOMAIN task[j].pvc_map : j \in users}
    IN  [c \in claims |-> task[CHOOSE j \in users : c \in DOMAIN task[j].pvc_map].pvc_map[c]]

VolumesOf(L) ==
    UNION {{heap[L][j].volumes[k] : k \in 1..Len(heap[L][j].volumes)} : j \in 1..Len(heap[L])}

\* C28: the list a cache hit hands out is the stored list itself, changed in
\* place by every enrichment run on it so far: it is the list as stored with
\* the capacities of all those claim maps written in, so a task that got it
\* from the cache holds volumes with the capacity another task wrote, also
\* for claims its own claim map does not have.
C28_CachedListShared ==
    /\ \A L \in DOMAIN heap : heap[L] = EnrichWithPvcData(AsStored(L), AppliedTo(L))
    /\ \A i \in Indices :
          GotFromCache(i) =>
              /\ cache[CacheKey("PodStorageCollector", items[i].name)].value.id
                     = task[i].pod_storages
              /\ \A j \in Indices :
                    (task[j].pod_storages = task[i].pod_storages /\ HasEnriched(j)) =>
                        \A v \in VolumesOf(task[i].pod_storages) :
                            v.pvc_name \in DOMAIN task[j].pvc_map =>
                                v.capacity = task[j].pvc_map[v.pvc_name].capacity

\* A task without claim collection got its list from the cache and has not
\* yet enriched it, and the list already has a capacity in it, written by
\* the task that runs next to it.
C28_Witness ==
    \E i \in Indices :
        /\ GotFromCache(i)
        /\ ~items[i].include_pvcs
        /\ task[i].pc = "enrich"
        /\ task[i].pvc_map = <<>>
        /\ \E v \in VolumesOf(task[i].pod_storages) : v.capacity # ""
        /\ AsStored(task[i].pod_storages) # heap[task[i].pod_storages]
        /\ task[task[i].pod_storages].pc # "done"

(***************************************************************************)
(* Claims about wrapper invocations in several threads                     *)
(***************************************************************************)
\* C29: whatever the thread's earlier invocations did and whatever the other
\* threads' invocations are doing, an invocation starts with attempt 0 and
\* current delay D and follows its own schedule: after a attempts failed its
\* delay is D * B^a, it has slept D, D*B, ..., and it gives up after exactly
\* max_retries + 1 retryable failures.
C29_RetryStateLocal ==
    \A t \in Threads :
        LET f == frame[t] IN
        f.pc # "idle" =>
            /\ f.calls = <<>> => (f.attempt = 0 /\ f.current_delay = fr_cfg.delay)
            /\ f.attempt = Len(f.sleeps)
            /\ f.attempt <= fr_cfg.max_retries
            /\ f.current_delay = fr_cfg.delay * Pow(fr_cfg.backoff, f.attempt)
            /\ \A j \in 1..Len(f.sleeps) :
                  f.sleeps[j] = fr_cfg.delay * Pow(fr_cfg.backoff, j - 1)
            /\ f.pc = "loop" => Len(f.calls) = f.attempt
            /\ (f.pc = "raised" /\ AllRetryable(f.calls)) =>
                  Len(f.calls) = fr_cfg.max_retries + 1

\* Thread 1 has just entered its second invocation, the first having slept
\* 1 and 2, while thread 2 is in the middle of its backoff with delay 4:
\* thread 1 is at attempt 0 with delay 1.
C29_Witness ==
    /\ fr_cfg.delay = 1 /\ fr_cfg.backoff = 2
    /\ frame[1].callNo = 2
    /\ frame[1].pc = "loop"
    /\ frame[1].calls = <<>>
    /\ Len(frame[1].before) >= 2
    /\ frame[1].attempt = 0
    /\ frame[1].current_delay = 1
    /\ frame[2].pc = "loop"
    /\ frame[2].current_delay = 4

(***************************************************************************)
(* Claims about the error counters                                         *)
(***************************************************************************)
\* The counter labelled k, 0 while the label does not exist.
CountOf(errs, k) == IF k \in DOMAIN errs THEN errs[k] ELSE 0

\* The stage call of this step left through the `except` of collect's try,
\* and record_error works.
StageFailedInTry ==
    /\ StageFailed
    /\ "start_timer" \notin sink
    /\ "record_error" \notin sink

\* C30: a stage call that fails inside a namespace task adds exactly two to
\* the error counter of (the task's namespace, the error's kind), one in the
\* stage's handler and one in collect_namespace's handler, and every other
\* counter, those of other namespaces among them, keeps its value.
C30_StageFailureCountedTwice ==
    [][StageFailedInTry =>
        LET k == <<ncfg.name, last'.error>> IN
        /\ CountOf(errors', k) = CountOf(errors, k) + 2
        /\ DOMAIN errors' = DOMAIN errors \cup {k}
        /\ \A x \in DOMAIN errors \ {k} : errors'[x] = errors[x]
        /\ nret' = Pair(ncall, <<>>)]_vars

\* The second call, for namespace A, has just failed in list_pods after the
\* first, for the empty name, failed validation: each counter stands at 2.
C30_Witness ==
    /\ ncall = 2
    /\ npc = "returned"
    /\ last # NoStage
    /\ ~last.ok
    /\ last.error = "ApiException"
    /\ ncfg.name = "A"
    /\ DOMAIN errors = {<<"A", "ApiException">>, <<"", "ValueError">>}
    /\ errors[<<"A", "ApiException">>] = 2
    /\ errors[<<"", "ValueError">>] = 2

====
